---- MODULE Spec2Model ----
(***************************************************************************)
(* sequelize-schema-sync: the schema differ (SchemaDiffer and its dialect  *)
(* handlers) and the migration generator (MigrationGenerator).             *)
(*                                                                         *)
(* A JavaScript string is the sequence of its characters, so that          *)
(* toLowerCase, includes, startsWith, slice and the regular expressions of *)
(* the source are computed on the text.  A JavaScript value is a record    *)
(* tagged with its typeof.                                                 *)
(***************************************************************************)
EXTENDS Integers, Sequences, FiniteSets, TLC

(***************************************************************************)
(* Strings                                                                 *)
(***************************************************************************)
UpperChars == <<"A","B","C","D","E","F","G","H","I","J","K","L","M","N","O","P","Q","R","S","T","U","V","W","X","Y","Z">>

LowerChars == <<"a","b","c","d","e","f","g","h","i","j","k","l","m","n","o","p","q","r","s","t","u","v","w","x","y","z">>

Digits == <<"0","1","2","3","4","5","6","7","8","9">>

IsUpper(c) == \E i \in DOMAIN UpperChars : UpperChars[i] = c

IsLower(c) == \E i \in DOMAIN LowerChars : LowerChars[i] = c

IsDigit(c) == \E i \in DOMAIN Digits : Digits[i] = c

\* \w of a regular expression
IsWordChar(c) == IsUpper(c) \/ IsLower(c) \/ IsDigit(c) \/ c = "_"

\* \s of a regular expression
IsSpace(c) == c = " "

DigitVal(c) == (CHOOSE i \in DOMAIN Digits : Digits[i] = c) - 1

LowerChar(c) == IF IsUpper(c) THEN LowerChars[CHOOSE i \in DOMAIN UpperChars : UpperChars[i] = c] ELSE c

UpperChar(c) == IF IsLower(c) THEN UpperChars[CHOOSE i \in DOMAIN LowerChars : LowerChars[i] = c] ELSE c

\* String.prototype.toLowerCase
toLowerCase(s) == [i \in DOMAIN s |-> LowerChar(s[i])]

\* String.prototype.toUpperCase
toUpperCase(s) == [i \in DOMAIN s |-> UpperChar(s[i])]

\* String.prototype.includes
includes(s, sub) ==
  \/ sub = <<>>
  \/ \E i \in 0..(Len(s) - Len(sub)) : s[i + 1] = sub[1] /\ SubSeq(s, i + 1, i + Len(sub)) = sub

\* String.prototype.startsWith
startsWith(s, pre) == Len(pre) <= Len(s) /\ SubSeq(s, 1, Len(pre)) = pre

\* String.prototype.endsWith
endsWith(s, suf) == Len(suf) <= Len(s) /\ SubSeq(s, Len(s) - Len(suf) + 1, Len(s)) = suf

\* String.prototype.trim
trim(s) ==
  IF \A i \in DOMAIN s : IsSpace(s[i]) THEN <<>>
  ELSE LET a == CHOOSE i \in DOMAIN s : ~IsSpace(s[i]) /\ \A j \in 1..(i - 1) : IsSpace(s[j])
           b == CHOOSE i \in DOMAIN s : ~IsSpace(s[i]) /\ \A j \in (i + 1)..Len(s) : IsSpace(s[j])
       IN SubSeq(s, a, b)

\* value.slice(1, -1)
sliceQuotes(s) == SubSeq(s, 2, Len(s) - 1)

\* /^\d+$/.test
IsIntegerText(s) == Len(s) > 0 /\ \A i \in DOMAIN s : IsDigit(s[i])

\* /^\d+\.\d+$/.test
IsDecimalText(s) ==
  \E d \in DOMAIN s :
    /\ s[d] = "."
    /\ IsIntegerText(SubSeq(s, 1, d - 1))
    /\ IsIntegerText(SubSeq(s, d + 1, Len(s)))

RECURSIVE DigitsValue(_)
DigitsValue(s) == IF s = <<>> THEN 0 ELSE 10 * DigitsValue(SubSeq(s, 1, Len(s) - 1)) + DigitVal(s[Len(s)])

RECURSIVE DropTrailingZeros(_)
DropTrailingZeros(s) == IF s # <<>> /\ s[Len(s)] = "0" THEN DropTrailingZeros(SubSeq(s, 1, Len(s) - 1)) ELSE s

\* the first position at or after i that holds no digit
DigitsEnd(s, i) == CHOOSE j \in i..(Len(s) + 1) : (\A k \in i..(j - 1) : IsDigit(s[k])) /\ (j = Len(s) + 1 \/ ~IsDigit(s[j]))

\* the first position at or after i that holds no white space
SpacesEnd(s, i) == CHOOSE j \in i..(Len(s) + 1) : (\A k \in i..(j - 1) : IsSpace(s[k])) /\ (j = Len(s) + 1 \/ ~IsSpace(s[j]))

\* the length of the match of /\(\d+(\,\s*\d+)?\)/ that starts at i, 0 if none
ParamsMatchAt(s, i) ==
  IF s[i] # "(" THEN 0
  ELSE LET j == DigitsEnd(s, i + 1)
       IN IF j = i + 1 \/ j > Len(s) THEN 0
          ELSE IF s[j] = ")" THEN j - i + 1
          ELSE IF s[j] # "," THEN 0
          ELSE LET k == SpacesEnd(s, j + 1)
                   m == DigitsEnd(s, k)
               IN IF m = k \/ m > Len(s) THEN 0
                  ELSE IF s[m] = ")" THEN m - i + 1 ELSE 0

\* typeStr.replace(/\(\d+(\,\s*\d+)?\)/g, '')
RECURSIVE StripFrom(_, _)
StripFrom(s, i) ==
  IF i > Len(s) THEN <<>>
  ELSE LET n == ParamsMatchAt(s, i)
       IN IF n > 0 THEN StripFrom(s, i + n) ELSE <<s[i]>> \o StripFrom(s, i + 1)

stripParams(s) == StripFrom(s, 1)

(***************************************************************************)
(* JavaScript values                                                       *)
(***************************************************************************)
Undef == [t |-> "undefined"]

Null == [t |-> "null"]

JSBool(b) == [t |-> "boolean", b |-> b]

\* a number: its integer part and the digits of its fraction
JSNum(i, f) == [t |-> "number", i |-> i, f |-> f]

JSInt(i) == JSNum(i, <<>>)

JSStr(s) == [t |-> "string", s |-> s]

\* a Date object, new Date()
JSDate == [t |-> "object", class |-> "Date"]

\* a class of DataTypes used as a value, such as DataTypes.NOW
JSFunction(name) == [t |-> "function", name |-> name]

\* the DataTypes.NOW class
JSNow == JSFunction(<<"N","O","W">>)

\* a DataTypes type object; toString() gives its SQL spelling
JSType(s) == [t |-> "object", class |-> "DataType", sql |-> s]

\* a references object of an attribute
JSRef(table, key) == [t |-> "object", class |-> "references", model |-> table, key |-> key]

IsString(v) == v.t = "string"

\* ToBoolean
Truthy(v) ==
  CASE v.t = "undefined" -> FALSE
    [] v.t = "null" -> FALSE
    [] v.t = "boolean" -> v.b
    [] v.t = "number" -> ~(v.i = 0 /\ v.f = <<>>)
    [] v.t = "string" -> v.s # <<>>
    [] OTHER -> TRUE

\* a === b; two Date objects built apart are never the same object
StrictEquals(a, b) == a = b /\ ~(a.t = "object" /\ a.class = "Date")

\* parseInt(value, 10) of a text of digits
parseInt(s) == JSInt(DigitsValue(s))

\* parseFloat(value) of a text digits.digits
parseFloat(s) ==
  LET d == CHOOSE i \in DOMAIN s : s[i] = "."
  IN JSNum(DigitsValue(SubSeq(s, 1, d - 1)), DropTrailingZeros(SubSeq(s, d + 1, Len(s))))

(***************************************************************************)
(* Column descriptors.  A desired attribute (model.rawAttributes[name]),   *)
(* an actual column (describeTable(table)[name]) and a converted           *)
(* definition are records of the same fields; a field the object does not  *)
(* have is Undef.                                                          *)
(***************************************************************************)
Descriptor(type, allowNull, primaryKey, autoIncrement, defaultValue, unique, references, extra) ==
  [type |-> type, allowNull |-> allowNull, primaryKey |-> primaryKey, autoIncrement |-> autoIncrement,
   defaultValue |-> defaultValue, unique |-> unique, references |-> references, extra |-> extra]

\* the decimal text of a natural number
RECURSIVE NatText(_)
NatText(n) == IF n < 10 THEN <<Digits[n + 1]>> ELSE NatText(n \div 10) \o <<Digits[(n % 10) + 1]>>

\* String(value)
String(v) ==
  CASE v.t = "string" -> v.s
    [] v.t = "undefined" -> <<"u","n","d","e","f","i","n","e","d">>
    [] v.t = "null" -> <<"n","u","l","l">>
    [] v.t = "boolean" -> IF v.b THEN <<"t","r","u","e">> ELSE <<"f","a","l","s","e">>
    [] v.t = "number" -> IF v.f = <<>> THEN NatText(v.i) ELSE NatText(v.i) \o <<".">> \o v.f
    [] v.t = "function" -> <<"c","l","a","s","s"," ">> \o v.name \o <<" ","e","x","t","e","n","d","s"," ","A","B","S","T","R","A","C","T"," ","{"," ","}">>
    [] v.t = "object" /\ v.class = "DataType" -> v.sql
    [] OTHER -> <<"[","o","b","j","e","c","t"," ","O","b","j","e","c","t","]">>

(***************************************************************************)
(* Dialect handlers                                                        *)
(***************************************************************************)
\* the first entry of typeMap whose key typeStr includes, 0 if none
FirstMatch(typeMap, typeStr) ==
  LET matches == {i \in DOMAIN typeMap : includes(typeStr, typeMap[i][1])}
  IN IF matches = {} THEN 0 ELSE CHOOSE i \in matches : \A j \in matches : i <= j

PostgreSQLTypeMap == <<
  <<<<"c","h","a","r","a","c","t","e","r"," ","v","a","r","y","i","n","g">>, <<"v","a","r","c","h","a","r">>>>,
  <<<<"c","h","a","r","a","c","t","e","r"," ","v","a","r","y","i","n","g","(","2","5","5",")">>, <<"v","a","r","c","h","a","r">>>>,
  <<<<"d","o","u","b","l","e"," ","p","r","e","c","i","s","i","o","n">>, <<"d","o","u","b","l","e">>>>,
  <<<<"t","i","m","e","s","t","a","m","p"," ","w","i","t","h","o","u","t"," ","t","i","m","e"," ","z","o","n","e">>, <<"t","i","m","e","s","t","a","m","p","t","z">>>>,
  <<<<"t","i","m","e","s","t","a","m","p"," ","w","i","t","h"," ","t","i","m","e"," ","z","o","n","e">>, <<"t","i","m","e","s","t","a","m","p","t","z">>>>,
  <<<<"t","i","m","e"," ","w","i","t","h","o","u","t"," ","t","i","m","e"," ","z","o","n","e">>, <<"t","i","m","e","s","t","a","m","p","t","z">>>>,
  <<<<"t","i","m","e">>, <<"t","i","m","e","s","t","a","m","p","t","z">>>>,
  <<<<"i","n","t","e","g","e","r">>, <<"i","n","t","e","g","e","r">>>>,
  <<<<"b","i","g","i","n","t">>, <<"b","i","g","i","n","t">>>>,
  <<<<"s","m","a","l","l","i","n","t">>, <<"s","m","a","l","l","i","n","t">>>>,
  <<<<"r","e","a","l">>, <<"f","l","o","a","t">>>>,
  <<<<"f","l","o","a","t">>, <<"f","l","o","a","t">>>>,
  <<<<"d","o","u","b","l","e">>, <<"d","o","u","b","l","e">>>>,
  <<<<"n","u","m","e","r","i","c">>, <<"d","e","c","i","m","a","l">>>>,
  <<<<"b","o","o","l","e","a","n">>, <<"b","o","o","l","e","a","n">>>>,
  <<<<"t","e","x","t">>, <<"t","e","x","t">>>>,
  <<<<"j","s","o","n">>, <<"j","s","o","n">>>>,
  <<<<"j","s","o","n","b">>, <<"j","s","o","n","b">>>>,
  <<<<"u","u","i","d">>, <<"u","u","i","d">>>>,
  <<<<"v","a","r","c","h","a","r","[","]">>, <<"v","a","r","c","h","a","r","[","]">>>>,
  <<<<"t","e","x","t","[","]">>, <<"t","e","x","t","[","]">>>> >>

MySQLTypeMap == <<
  <<<<"t","i","n","y","i","n","t","(","1",")">>, <<"b","o","o","l","e","a","n">>>>,
  <<<<"t","i","n","y","i","n","t">>, <<"t","i","n","y","i","n","t">>>>,
  <<<<"s","m","a","l","l","i","n","t">>, <<"s","m","a","l","l","i","n","t">>>>,
  <<<<"m","e","d","i","u","m","i","n","t">>, <<"m","e","d","i","u","m","i","n","t">>>>,
  <<<<"i","n","t">>, <<"i","n","t","e","g","e","r">>>>,
  <<<<"i","n","t","e","g","e","r">>, <<"i","n","t","e","g","e","r">>>>,
  <<<<"b","i","g","i","n","t">>, <<"b","i","g","i","n","t">>>>,
  <<<<"d","e","c","i","m","a","l">>, <<"d","e","c","i","m","a","l">>>>,
  <<<<"n","u","m","e","r","i","c">>, <<"d","e","c","i","m","a","l">>>>,
  <<<<"f","l","o","a","t">>, <<"f","l","o","a","t">>>>,
  <<<<"d","o","u","b","l","e">>, <<"d","o","u","b","l","e">>>>,
  <<<<"r","e","a","l">>, <<"d","o","u","b","l","e">>>>,
  <<<<"b","i","t">>, <<"b","i","t">>>>,
  <<<<"b","o","o","l","e","a","n">>, <<"b","o","o","l","e","a","n">>>>,
  <<<<"s","e","r","i","a","l">>, <<"b","i","g","i","n","t">>>>,
  <<<<"c","h","a","r">>, <<"c","h","a","r">>>>,
  <<<<"v","a","r","c","h","a","r">>, <<"v","a","r","c","h","a","r">>>>,
  <<<<"b","i","n","a","r","y">>, <<"b","i","n","a","r","y">>>>,
  <<<<"v","a","r","b","i","n","a","r","y">>, <<"v","a","r","b","i","n","a","r","y">>>>,
  <<<<"t","i","n","y","b","l","o","b">>, <<"b","l","o","b">>>>,
  <<<<"t","i","n","y","t","e","x","t">>, <<"t","e","x","t">>>>,
  <<<<"t","e","x","t">>, <<"t","e","x","t">>>>,
  <<<<"b","l","o","b">>, <<"b","l","o","b">>>>,
  <<<<"m","e","d","i","u","m","t","e","x","t">>, <<"m","e","d","i","u","m","t","e","x","t">>>>,
  <<<<"m","e","d","i","u","m","b","l","o","b">>, <<"m","e","d","i","u","m","b","l","o","b">>>>,
  <<<<"l","o","n","g","t","e","x","t">>, <<"l","o","n","g","t","e","x","t">>>>,
  <<<<"l","o","n","g","b","l","o","b">>, <<"l","o","n","g","b","l","o","b">>>>,
  <<<<"e","n","u","m">>, <<"e","n","u","m">>>>,
  <<<<"s","e","t">>, <<"s","e","t">>>>,
  <<<<"d","a","t","e">>, <<"d","a","t","e">>>>,
  <<<<"d","a","t","e","t","i","m","e">>, <<"d","a","t","e","t","i","m","e">>>>,
  <<<<"t","i","m","e","s","t","a","m","p">>, <<"t","i","m","e","s","t","a","m","p">>>>,
  <<<<"t","i","m","e">>, <<"t","i","m","e">>>>,
  <<<<"y","e","a","r">>, <<"y","e","a","r">>>>,
  <<<<"j","s","o","n">>, <<"j","s","o","n">>>> >>

SQLiteTypeMap == <<
  <<<<"i","n","t","e","g","e","r">>, <<"i","n","t","e","g","e","r">>>>,
  <<<<"r","e","a","l">>, <<"r","e","a","l">>>>,
  <<<<"t","e","x","t">>, <<"t","e","x","t">>>>,
  <<<<"b","l","o","b">>, <<"b","l","o","b">>>>,
  <<<<"n","u","m","e","r","i","c">>, <<"n","u","m","e","r","i","c">>>>,
  <<<<"b","o","o","l","e","a","n">>, <<"b","o","o","l","e","a","n">>>>,
  <<<<"d","a","t","e","t","i","m","e">>, <<"d","a","t","e","t","i","m","e">>>>,
  <<<<"d","a","t","e">>, <<"d","a","t","e">>>>,
  <<<<"t","i","m","e">>, <<"t","i","m","e">>>>,
  <<<<"v","a","r","c","h","a","r">>, <<"v","a","r","c","h","a","r">>>>,
  <<<<"c","h","a","r">>, <<"c","h","a","r">>>>,
  <<<<"d","e","c","i","m","a","l">>, <<"d","e","c","i","m","a","l">>>>,
  <<<<"f","l","o","a","t">>, <<"r","e","a","l">>>>,
  <<<<"d","o","u","b","l","e">>, <<"r","e","a","l">>>> >>

PostgreSQLHandler_normalizeType(type) ==
  LET typeStr == trim(toLowerCase(type))
      m == FirstMatch(PostgreSQLTypeMap, typeStr)
  IN IF m # 0 THEN PostgreSQLTypeMap[m][2]
     ELSE IF includes(typeStr, <<"e","n","u","m">>) \/ includes(typeStr, <<"v","a","r","c","h","a","r">>) THEN <<"e","n","u","m","_","o","r","_","v","a","r","c","h","a","r">>
     ELSE stripParams(typeStr)

MySQLHandler_normalizeType(type) ==
  LET typeStr == trim(toLowerCase(type))
      m == FirstMatch(MySQLTypeMap, typeStr)
  IN IF m # 0 THEN MySQLTypeMap[m][2] ELSE stripParams(typeStr)

SQLiteHandler_normalizeType(type) ==
  LET typeStr == trim(toLowerCase(type))
      m == FirstMatch(SQLiteTypeMap, typeStr)
  IN IF m # 0 THEN SQLiteTypeMap[m][2] ELSE stripParams(typeStr)

GenericHandler_normalizeType(type) == stripParams(toLowerCase(type))

PostgreSQLHandler_isAutoIncrement(column) ==
  \/ Truthy(column.autoIncrement)
  \/ /\ Truthy(column.defaultValue)
     /\ IsString(column.defaultValue)
     /\ includes(column.defaultValue.s, <<"n","e","x","t","v","a","l">>)

MySQLHandler_isAutoIncrement(column) ==
  \/ Truthy(column.autoIncrement)
  \/ /\ Truthy(column.extra)
     /\ includes(toLowerCase(column.extra.s), <<"a","u","t","o","_","i","n","c","r","e","m","e","n","t">>)

SQLiteHandler_isAutoIncrement(column) ==
  \/ Truthy(column.autoIncrement)
  \/ /\ Truthy(column.primaryKey)
     /\ SQLiteHandler_normalizeType(String(column.type)) = <<"i","n","t","e","g","e","r">>

GenericHandler_isAutoIncrement(column) == Truthy(column.autoIncrement)

IsQuoted(value) ==
  \/ startsWith(value, <<"'">>) /\ endsWith(value, <<"'">>)
  \/ startsWith(value, <<"\"">>) /\ endsWith(value, <<"\"">>)

PostgreSQLHandler_normalizeDefaultValue(value) ==
  IF value.t = "undefined" \/ value.t = "null" THEN Null
  ELSE IF IsString(value) THEN
    LET lowerValue == trim(toLowerCase(value.s))
        unquoted == sliceQuotes(value.s)
    IN IF lowerValue = <<"n","o","w","(",")">> \/ lowerValue = <<"c","u","r","r","e","n","t","_","t","i","m","e","s","t","a","m","p">> \/ includes(lowerValue, <<"n","o","w","(",")">>) THEN JSStr(<<"C","U","R","R","E","N","T","_","T","I","M","E","S","T","A","M","P">>)
       ELSE IF lowerValue = <<"t","r","u","e">> \/ lowerValue = <<"t">> THEN JSBool(TRUE)
       ELSE IF lowerValue = <<"f","a","l","s","e">> \/ lowerValue = <<"f">> THEN JSBool(FALSE)
       ELSE IF IsQuoted(value.s) THEN
         IF IsIntegerText(unquoted) THEN parseInt(unquoted)
         ELSE IF IsDecimalText(unquoted) THEN parseFloat(unquoted)
         ELSE JSStr(unquoted)
       ELSE IF IsIntegerText(value.s) THEN parseInt(value.s)
       ELSE IF IsDecimalText(value.s) THEN parseFloat(value.s)
       ELSE value
  ELSE value

MySQLHandler_normalizeDefaultValue(value) ==
  IF value.t = "undefined" \/ value.t = "null" THEN Null
  ELSE IF IsString(value) THEN
    LET lowerValue == trim(toLowerCase(value.s))
    IN IF lowerValue = <<"c","u","r","r","e","n","t","_","t","i","m","e","s","t","a","m","p">> \/ lowerValue = <<"c","u","r","r","e","n","t","_","t","i","m","e","s","t","a","m","p","(",")">> \/ lowerValue = <<"n","o","w","(",")">> THEN JSStr(<<"C","U","R","R","E","N","T","_","T","I","M","E","S","T","A","M","P">>)
       ELSE IF lowerValue = <<"1">> THEN JSBool(TRUE)
       ELSE IF lowerValue = <<"0">> THEN JSBool(FALSE)
       ELSE IF IsQuoted(value.s) THEN JSStr(sliceQuotes(value.s))
       ELSE IF IsIntegerText(value.s) THEN parseInt(value.s)
       ELSE IF IsDecimalText(value.s) THEN parseFloat(value.s)
       ELSE value
  ELSE value

SQLiteHandler_normalizeDefaultValue(value) ==
  IF value.t = "undefined" \/ value.t = "null" THEN Null
  ELSE IF IsString(value) THEN
    LET lowerValue == trim(toLowerCase(value.s))
    IN IF lowerValue = <<"c","u","r","r","e","n","t","_","t","i","m","e","s","t","a","m","p">> \/ lowerValue = <<"d","a","t","e","t","i","m","e","(","'","n","o","w","'",")">> THEN JSStr(<<"C","U","R","R","E","N","T","_","T","I","M","E","S","T","A","M","P">>)
       ELSE IF lowerValue = <<"1">> THEN JSInt(1)
       ELSE IF lowerValue = <<"0">> THEN JSInt(0)
       ELSE IF IsQuoted(value.s) THEN JSStr(sliceQuotes(value.s))
       ELSE IF IsIntegerText(value.s) THEN parseInt(value.s)
       ELSE IF IsDecimalText(value.s) THEN parseFloat(value.s)
       ELSE value
  ELSE value

GenericHandler_normalizeDefaultValue(value) == value

PostgreSQLHandler_keepsTable(table) ==
  LET lowerTable == toLowerCase(table)
  IN /\ ~startsWith(lowerTable, <<"p","g","_">>)
     /\ lowerTable # <<"i","n","f","o","r","m","a","t","i","o","n","_","s","c","h","e","m","a">>
     /\ ~includes(lowerTable, <<"s","e","q","u","e","l","i","z","e","m","e","t","a">>)
     /\ ~startsWith(lowerTable, <<"s","q","l","_">>)
     /\ lowerTable # <<"d","u","a","l">>

MySQLHandler_keepsTable(table) ==
  LET lowerTable == toLowerCase(table)
  IN /\ lowerTable # <<"i","n","f","o","r","m","a","t","i","o","n","_","s","c","h","e","m","a">>
     /\ lowerTable # <<"p","e","r","f","o","r","m","a","n","c","e","_","s","c","h","e","m","a">>
     /\ lowerTable # <<"m","y","s","q","l">>
     /\ lowerTable # <<"s","y","s">>
     /\ ~includes(lowerTable, <<"s","e","q","u","e","l","i","z","e","m","e","t","a">>)

SQLiteHandler_keepsTable(table) ==
  LET lowerTable == toLowerCase(table)
  IN /\ ~startsWith(lowerTable, <<"s","q","l","i","t","e","_">>)
     /\ lowerTable # <<"s","q","l","i","t","e","_","s","e","q","u","e","n","c","e">>
     /\ ~includes(lowerTable, <<"s","e","q","u","e","l","i","z","e","m","e","t","a">>)

\* a filter that excludes nothing
keepsEveryTable(table) == TRUE

GenericHandler_keepsTable(table) == ~includes(toLowerCase(table), <<"s","e","q","u","e","l","i","z","e","m","e","t","a">>)

\* the SQLite handler for a dialect the switch does not name
sqliteForUnknown(dialect) ==
  CASE dialect = "postgres" -> "PostgreSQLHandler"
    [] dialect = "mysql" -> "MySQLHandler"
    [] dialect = "mariadb" -> "MySQLHandler"
    [] OTHER -> "SQLiteHandler"

\* SchemaDiffer.createDialectHandler
createDialectHandler(dialect) ==
  CASE dialect = "postgres" -> "PostgreSQLHandler"
    [] dialect = "mysql" -> "MySQLHandler"
    [] dialect = "mariadb" -> "MySQLHandler"
    [] dialect = "sqlite" -> "SQLiteHandler"
    [] OTHER -> "GenericHandler"

\* this.dialectHandler.normalizeType
normalizeType(handler, type) ==
  CASE handler = "PostgreSQLHandler" -> PostgreSQLHandler_normalizeType(type)
    [] handler = "MySQLHandler" -> MySQLHandler_normalizeType(type)
    [] handler = "SQLiteHandler" -> SQLiteHandler_normalizeType(type)
    [] OTHER -> GenericHandler_normalizeType(type)

\* this.dialectHandler.isAutoIncrement
isAutoIncrement(handler, column) ==
  CASE handler = "PostgreSQLHandler" -> PostgreSQLHandler_isAutoIncrement(column)
    [] handler = "MySQLHandler" -> MySQLHandler_isAutoIncrement(column)
    [] handler = "SQLiteHandler" -> SQLiteHandler_isAutoIncrement(column)
    [] OTHER -> GenericHandler_isAutoIncrement(column)

\* this.dialectHandler.normalizeDefaultValue
normalizeDefaultValue(handler, value) ==
  CASE handler = "PostgreSQLHandler" -> PostgreSQLHandler_normalizeDefaultValue(value)
    [] handler = "MySQLHandler" -> MySQLHandler_normalizeDefaultValue(value)
    [] handler = "SQLiteHandler" -> SQLiteHandler_normalizeDefaultValue(value)
    [] OTHER -> GenericHandler_normalizeDefaultValue(value)

\* this.dialectHandler.filterSystemTables
filterSystemTables(handler, tables) ==
  CASE handler = "PostgreSQLHandler" -> SelectSeq(tables, PostgreSQLHandler_keepsTable)
    [] handler = "MySQLHandler" -> SelectSeq(tables, MySQLHandler_keepsTable)
    [] handler = "SQLiteHandler" -> SelectSeq(tables, SQLiteHandler_keepsTable)
    [] OTHER -> SelectSeq(tables, GenericHandler_keepsTable)

(***************************************************************************)
(* SchemaDiffer: the column differ                                         *)
(***************************************************************************)
getTypeString(type) ==
  IF IsString(type) THEN type.s
  ELSE IF type.t = "object" /\ type.class = "DataType" THEN
    LET typeStr == type.sql
    IN IF includes(typeStr, <<"A","R","R","A","Y">>) /\ includes(typeStr, <<"S","T","R","I","N","G">>) THEN <<"v","a","r","c","h","a","r","[","]">>
       ELSE IF includes(typeStr, <<"A","R","R","A","Y">>) /\ includes(typeStr, <<"T","E","X","T">>) THEN <<"t","e","x","t","[","]">>
       ELSE IF includes(typeStr, <<"E","N","U","M">>) THEN <<"e","n","u","m">>
       ELSE IF includes(typeStr, <<"F","L","O","A","T">>) \/ includes(typeStr, <<"R","E","A","L">>) THEN <<"f","l","o","a","t">>
       ELSE IF includes(typeStr, <<"D","O","U","B","L","E">>) THEN <<"d","o","u","b","l","e">>
       ELSE IF includes(typeStr, <<"D","A","T","E">>) \/ includes(typeStr, <<"T","I","M","E","S","T","A","M","P">>) THEN <<"t","i","m","e","s","t","a","m","p","t","z">>
       ELSE typeStr
  ELSE String(type)

areTypesEquivalent(existingType, modelType) ==
  IF existingType = modelType THEN TRUE
  ELSE IF (existingType = <<"d","o","u","b","l","e">> /\ modelType = <<"f","l","o","a","t">>) \/ (existingType = <<"f","l","o","a","t">> /\ modelType = <<"d","o","u","b","l","e">>) THEN TRUE
  ELSE IF (existingType = <<"t","i","m","e">> /\ modelType = <<"t","i","m","e","s","t","a","m","p","t","z">>) \/ (existingType = <<"t","i","m","e","s","t","a","m","p","t","z">> /\ modelType = <<"t","i","m","e","s","t","a","m","p","t","z">>) THEN TRUE
  ELSE IF \/ existingType = <<"e","n","u","m","_","o","r","_","v","a","r","c","h","a","r">> /\ modelType = <<"e","n","u","m","_","o","r","_","v","a","r","c","h","a","r">>
          \/ existingType = <<"v","a","r","c","h","a","r">> /\ modelType = <<"e","n","u","m">>
          \/ existingType = <<"e","n","u","m">> /\ modelType = <<"v","a","r","c","h","a","r">> THEN TRUE
  ELSE IF includes(existingType, <<"[","]">>) # includes(modelType, <<"[","]">>) THEN FALSE
  ELSE FALSE

getNullability(column) ==
  IF Truthy(column.primaryKey) \/ Truthy(column.autoIncrement) THEN FALSE
  ELSE column.allowNull # JSBool(FALSE)

\* the comparison without its default value check
changedBeforeDefault(handler, existingColumn, modelColumn) ==
  LET existingType == normalizeType(handler, getTypeString(existingColumn.type))
      modelType == normalizeType(handler, getTypeString(modelColumn.type))
  IN \/ ~areTypesEquivalent(existingType, modelType)
     \/ getNullability(existingColumn) # getNullability(modelColumn)
     \/ Truthy(existingColumn.primaryKey) # Truthy(modelColumn.primaryKey)
     \/ isAutoIncrement(handler, existingColumn) # Truthy(modelColumn.autoIncrement)
     \/ Truthy(existingColumn.unique) # Truthy(modelColumn.unique)

\* the comparison with the default value check made for key columns as well
changedWithKeyDefaults(handler, existingColumn, modelColumn) ==
  \/ changedBeforeDefault(handler, existingColumn, modelColumn)
  \/ ~StrictEquals(normalizeDefaultValue(handler, existingColumn.defaultValue),
                   normalizeDefaultValue(handler, modelColumn.defaultValue))

hasColumnChanged(handler, existingColumn, modelColumn) ==
  LET existingType == normalizeType(handler, getTypeString(existingColumn.type))
      modelType == normalizeType(handler, getTypeString(modelColumn.type))
      existingPK == Truthy(existingColumn.primaryKey)
      modelPK == Truthy(modelColumn.primaryKey)
      existingAI == isAutoIncrement(handler, existingColumn)
      modelAI == Truthy(modelColumn.autoIncrement)
      existingDefault == normalizeDefaultValue(handler, existingColumn.defaultValue)
      modelDefault == normalizeDefaultValue(handler, modelColumn.defaultValue)
  IN IF ~areTypesEquivalent(existingType, modelType) THEN TRUE
     ELSE IF getNullability(existingColumn) # getNullability(modelColumn) THEN TRUE
     ELSE IF existingPK # modelPK THEN TRUE
     ELSE IF existingAI # modelAI THEN TRUE
     ELSE IF Truthy(existingColumn.unique) # Truthy(modelColumn.unique) THEN TRUE
     ELSE IF ~existingAI /\ ~modelAI /\ ~existingPK THEN ~StrictEquals(existingDefault, modelDefault)
     ELSE FALSE

\* what hasColumnChanged logs on its way: the message of the check it returns true from, nothing when it
\* returns false
loggedDifference(handler, existingColumn, modelColumn) ==
  LET existingType == normalizeType(handler, getTypeString(existingColumn.type))
      modelType == normalizeType(handler, getTypeString(modelColumn.type))
      existingPK == Truthy(existingColumn.primaryKey)
      modelPK == Truthy(modelColumn.primaryKey)
      existingAI == isAutoIncrement(handler, existingColumn)
      modelAI == Truthy(modelColumn.autoIncrement)
      existingDefault == normalizeDefaultValue(handler, existingColumn.defaultValue)
      modelDefault == normalizeDefaultValue(handler, modelColumn.defaultValue)
  IN IF ~areTypesEquivalent(existingType, modelType) THEN <<"Type difference">>
     ELSE IF getNullability(existingColumn) # getNullability(modelColumn) THEN <<"Nullability difference">>
     ELSE IF existingPK # modelPK THEN <<"Primary key difference">>
     ELSE IF existingAI # modelAI THEN <<"Auto increment difference">>
     ELSE IF Truthy(existingColumn.unique) # Truthy(modelColumn.unique) THEN <<"Unique constraint difference">>
     ELSE IF ~existingAI /\ ~modelAI /\ ~existingPK /\ ~StrictEquals(existingDefault, modelDefault)
          THEN <<"Default value difference">>
     ELSE <<>>

convertAttributeToQueryInterface(attribute) ==
  Descriptor(attribute.type,
             JSBool(attribute.allowNull # JSBool(FALSE)),
             IF Truthy(attribute.primaryKey) THEN JSBool(TRUE) ELSE Undef,
             IF Truthy(attribute.autoIncrement) THEN JSBool(TRUE) ELSE Undef,
             IF attribute.defaultValue # Undef THEN attribute.defaultValue ELSE Undef,
             IF Truthy(attribute.unique) THEN JSBool(TRUE) ELSE Undef,
             IF Truthy(attribute.references) THEN attribute.references ELSE Undef,
             Undef)

\* PostgreSQLHandler.compareBooleans
PostgreSQLHandler_compareBooleans(existing, model) == StrictEquals(existing, model)

\* strict equality in place of the MySQL reading of 1, '1' and true
compareBooleansStrictly(existing, model) == StrictEquals(existing, model)

\* MySQLHandler.compareBooleans
MySQLHandler_compareBooleans(existing, model) ==
  LET existingBool == existing = JSInt(1) \/ existing = JSStr(<<"1">>) \/ existing = JSBool(TRUE)
      modelBool == model = JSInt(1) \/ model = JSStr(<<"1">>) \/ model = JSBool(TRUE)
  IN existingBool = modelBool

\* SQLiteHandler.compareBooleans
SQLiteHandler_compareBooleans(existing, model) ==
  LET existingBool == existing = JSInt(1) \/ existing = JSStr(<<"1">>)
      modelBool == model = JSInt(1) \/ model = JSStr(<<"1">>) \/ model = JSBool(TRUE)
  IN existingBool = modelBool

\* GenericHandler.compareBooleans
GenericHandler_compareBooleans(existing, model) == StrictEquals(existing, model)

\* this.dialectHandler.compareBooleans
compareBooleans(handler, existing, model) ==
  CASE handler = "PostgreSQLHandler" -> PostgreSQLHandler_compareBooleans(existing, model)
    [] handler = "MySQLHandler" -> MySQLHandler_compareBooleans(existing, model)
    [] handler = "SQLiteHandler" -> SQLiteHandler_compareBooleans(existing, model)
    [] OTHER -> GenericHandler_compareBooleans(existing, model)

(***************************************************************************)
(* SchemaDiffer: the schema diff engine.  An object with ordered keys      *)
(* (rawAttributes, the result of describeTable, a table definition) is the *)
(* sequence of its [name, value] entries.                                  *)
(***************************************************************************)
Entry(name, value) == [name |-> name, value |-> value]

\* Object.keys(object)
keys(object) == [i \in DOMAIN object |-> object[i].name]

\* array.includes(item)
arrayIncludes(array, item) == \E i \in DOMAIN array : array[i] = item

\* object[name], for a key the object has
get(object, name) == object[CHOOSE i \in DOMAIN object : object[i].name = name].value

\* array.map(f) followed by dropping the items f gave none for: f gives a sequence of 0 or 1 items
RECURSIVE flatMap(_, _, _)
flatMap(array, i, f) == IF i > Len(array) THEN <<>> ELSE f[i] \o flatMap(array, i + 1, f)

ColumnDifference(column, action, from, to) == [column |-> column, action |-> action, from |-> from, to |-> to]

TableDifference(table, action, columns, definition) == [table |-> table, action |-> action, columns |-> columns, definition |-> definition]

\* a ColumnDifference[] held by a TableDifference
JSArray(items) == [t |-> "object", class |-> "Array", items |-> items]

\* a table definition held by a TableDifference
JSObject(entries) == [t |-> "object", class |-> "Object", entries |-> entries]

\* model.tableName || model.name
tableNameOf(model) == IF Truthy(model.tableName) THEN model.tableName.s ELSE model.name

\* the database behind queryInterface: its tables, each with its columns
dbTableNames(db) == [i \in DOMAIN db |-> db[i].table]

\* queryInterface.describeTable(tableName) throws for the table the environment fails
describeFails(env, tableName) == env.describe # "ok" /\ env.failing = tableName

getExistingTables(dialect, db, env) ==
  LET handler == createDialectHandler(dialect)
      queried == IF dialect = "postgres" /\ env.query = "ok" THEN dbTableNames(db) ELSE <<>>
      tables == IF Len(queried) = 0
                THEN (IF env.showAllTables = "ok" THEN dbTableNames(db) ELSE <<>>)
                ELSE queried
      filteredTables == filterSystemTables(handler, tables)
  IN IF Len(filteredTables) > 0 /\ describeFails(env, filteredTables[1]) /\ env.describe = "does not exist"
     THEN <<>>
     ELSE filteredTables

\* the definition without the last attribute of the model
definitionShortByOne(model) ==
  [i \in 1..(Len(model.rawAttributes) - 1) |->
     Entry(model.rawAttributes[i].name, convertAttributeToQueryInterface(model.rawAttributes[i].value))]

getModelTableDefinition(model) ==
  [i \in DOMAIN model.rawAttributes |->
     Entry(model.rawAttributes[i].name, convertAttributeToQueryInterface(model.rawAttributes[i].value))]

\* a change for every column the model and the table share, whether or not it differs
changeEveryCommonColumn(handler, existingColumns, modelAttributes) ==
  flatMap(modelAttributes, 1,
    [i \in DOMAIN modelAttributes |->
       LET columnName == modelAttributes[i].name
           modelColumn == modelAttributes[i].value
       IN IF ~arrayIncludes(keys(existingColumns), columnName)
          THEN <<ColumnDifference(columnName, "add", Undef, convertAttributeToQueryInterface(modelColumn))>>
          ELSE <<ColumnDifference(columnName, "change", get(existingColumns, columnName), convertAttributeToQueryInterface(modelColumn))>>])

\* the add and change entries, in the order of the model's attributes
modelColumnDifferences(handler, existingColumns, modelAttributes) ==
  flatMap(modelAttributes, 1,
    [i \in DOMAIN modelAttributes |->
       LET columnName == modelAttributes[i].name
           modelColumn == modelAttributes[i].value
       IN IF ~arrayIncludes(keys(existingColumns), columnName)
          THEN <<ColumnDifference(columnName, "add", Undef, convertAttributeToQueryInterface(modelColumn))>>
          ELSE IF hasColumnChanged(handler, get(existingColumns, columnName), modelColumn)
          THEN <<ColumnDifference(columnName, "change", get(existingColumns, columnName), convertAttributeToQueryInterface(modelColumn))>>
          ELSE <<>>])

\* the remove entries, last column first
removedColumnsLastFirst(existingColumns, modelAttributes) ==
  flatMap(existingColumns, 1,
    [i \in DOMAIN existingColumns |->
       LET column == existingColumns[Len(existingColumns) + 1 - i]
       IN IF ~arrayIncludes(keys(modelAttributes), column.name)
          THEN <<ColumnDifference(column.name, "remove", column.value, Undef)>>
          ELSE <<>>])

\* the remove entries, in the order of the table's columns
removedColumnDifferences(existingColumns, modelAttributes) ==
  flatMap(existingColumns, 1,
    [i \in DOMAIN existingColumns |->
       IF ~arrayIncludes(keys(modelAttributes), existingColumns[i].name)
       THEN <<ColumnDifference(existingColumns[i].name, "remove", existingColumns[i].value, Undef)>>
       ELSE <<>>])

compareTableColumns(handler, model, db, env) ==
  LET tableName == tableNameOf(model)
  IN IF describeFails(env, tableName) \/ ~arrayIncludes(dbTableNames(db), tableName) THEN <<>>
     ELSE LET existingColumns == db[CHOOSE i \in DOMAIN db : db[i].table = tableName].columns
          IN modelColumnDifferences(handler, existingColumns, model.rawAttributes)
               \o removedColumnDifferences(existingColumns, model.rawAttributes)

\* an alter for every table that exists, whether or not a column differs
alterEveryExistingTable(handler, models, existingTables, db, env) ==
  flatMap(models, 1,
    [i \in DOMAIN models |->
       LET tableName == tableNameOf(models[i])
           columnDiffs == compareTableColumns(handler, models[i], db, env)
       IN IF ~arrayIncludes(existingTables, tableName)
          THEN <<TableDifference(tableName, "create", Undef, JSObject(getModelTableDefinition(models[i])))>>
          ELSE <<TableDifference(tableName, "alter", JSArray(columnDiffs), Undef)>>])

\* the create and alter entries, in the order of the models
modelTableDifferences(handler, models, existingTables, db, env) ==
  flatMap(models, 1,
    [i \in DOMAIN models |->
       LET tableName == tableNameOf(models[i])
           columnDiffs == compareTableColumns(handler, models[i], db, env)
       IN IF ~arrayIncludes(existingTables, tableName)
          THEN <<TableDifference(tableName, "create", Undef, JSObject(getModelTableDefinition(models[i])))>>
          ELSE IF Len(columnDiffs) > 0
          THEN <<TableDifference(tableName, "alter", JSArray(columnDiffs), Undef)>>
          ELSE <<>>])

\* drop entries that carry an empty definition
dropsWithDefinition(models, existingTables) ==
  LET modelTableNames == [i \in DOMAIN models |-> tableNameOf(models[i])]
  IN flatMap(existingTables, 1,
       [i \in DOMAIN existingTables |->
          IF ~arrayIncludes(modelTableNames, existingTables[i])
          THEN <<TableDifference(existingTables[i], "drop", Undef, JSObject(<<>>))>>
          ELSE <<>>])

\* the drop entries, in the order of the existing tables
droppedTableDifferences(models, existingTables) ==
  LET modelTableNames == [i \in DOMAIN models |-> tableNameOf(models[i])]
  IN flatMap(existingTables, 1,
       [i \in DOMAIN existingTables |->
          IF ~arrayIncludes(modelTableNames, existingTables[i])
          THEN <<TableDifference(existingTables[i], "drop", Undef, Undef)>>
          ELSE <<>>])

\* hasChanges set whatever the list holds
alwaysChanged(differences) == [tables |-> differences, hasChanges |-> TRUE]

SchemaDiff(differences) == [tables |-> differences, hasChanges |-> Len(differences) > 0]

generateDiff(dialect, models, db, env) ==
  LET handler == createDialectHandler(dialect)
      existingTables == getExistingTables(dialect, db, env)
  IN SchemaDiff(modelTableDifferences(handler, models, existingTables, db, env)
                  \o droppedTableDifferences(models, existingTables))

(***************************************************************************)
(* MigrationGenerator.  A column definition literal  { k: v, ... }  is the *)
(* sequence of its [name, value] parts, each value the text emitted.  A    *)
(* statement is the sequence of the queryInterface calls it holds, one per *)
(* line; the empty string is the empty sequence.                           *)
(***************************************************************************)
dataTypeMap == <<
  <<<<"V","A","R","C","H","A","R","(","2","5","5",")">>, <<"D","a","t","a","T","y","p","e","s",".","S","T","R","I","N","G">>>>,
  <<<<"T","E","X","T">>, <<"D","a","t","a","T","y","p","e","s",".","T","E","X","T">>>>,
  <<<<"I","N","T","E","G","E","R">>, <<"D","a","t","a","T","y","p","e","s",".","I","N","T","E","G","E","R">>>>,
  <<<<"B","I","G","I","N","T">>, <<"D","a","t","a","T","y","p","e","s",".","B","I","G","I","N","T">>>>,
  <<<<"F","L","O","A","T">>, <<"D","a","t","a","T","y","p","e","s",".","F","L","O","A","T">>>>,
  <<<<"D","O","U","B","L","E">>, <<"D","a","t","a","T","y","p","e","s",".","D","O","U","B","L","E">>>>,
  <<<<"D","E","C","I","M","A","L">>, <<"D","a","t","a","T","y","p","e","s",".","D","E","C","I","M","A","L">>>>,
  <<<<"B","O","O","L","E","A","N">>, <<"D","a","t","a","T","y","p","e","s",".","B","O","O","L","E","A","N">>>>,
  <<<<"T","I","N","Y","I","N","T","(","1",")">>, <<"D","a","t","a","T","y","p","e","s",".","B","O","O","L","E","A","N">>>>,
  <<<<"D","A","T","E">>, <<"D","a","t","a","T","y","p","e","s",".","D","A","T","E">>>>,
  <<<<"D","A","T","E","O","N","L","Y">>, <<"D","a","t","a","T","y","p","e","s",".","D","A","T","E","O","N","L","Y">>>>,
  <<<<"T","I","M","E">>, <<"D","a","t","a","T","y","p","e","s",".","T","I","M","E">>>>,
  <<<<"U","U","I","D">>, <<"D","a","t","a","T","y","p","e","s",".","U","U","I","D">>>>,
  <<<<"J","S","O","N">>, <<"D","a","t","a","T","y","p","e","s",".","J","S","O","N">>>>,
  <<<<"J","S","O","N","B">>, <<"D","a","t","a","T","y","p","e","s",".","J","S","O","N","B">>>> >>

\* typeStr.match(/VARCHAR\((\d+)\)/i): the digits of the leftmost match, <<>> if none
varcharLength(typeStr) ==
  LET upper == toUpperCase(typeStr)
      Match(i) == /\ i + 7 <= Len(upper)
                  /\ SubSeq(upper, i, i + 7) = <<"V","A","R","C","H","A","R","(">>
                  /\ DigitsEnd(upper, i + 8) > i + 8
                  /\ DigitsEnd(upper, i + 8) <= Len(upper)
                  /\ upper[DigitsEnd(upper, i + 8)] = ")"
  IN IF \E i \in DOMAIN upper : Match(i)
     THEN LET i == CHOOSE i \in DOMAIN upper : Match(i) /\ \A j \in 1..(i - 1) : ~Match(j)
          IN SubSeq(upper, i + 8, DigitsEnd(upper, i + 8) - 1)
     ELSE <<>>

formatDataType(type) ==
  LET typeStr == String(type)
      m == FirstMatch(dataTypeMap, toUpperCase(typeStr))
  IN IF m # 0 THEN dataTypeMap[m][2]
     ELSE IF varcharLength(typeStr) # <<>> THEN <<"D","a","t","a","T","y","p","e","s",".","S","T","R","I","N","G","(">> \o varcharLength(typeStr) \o <<")">>
     ELSE <<"D","a","t","a","T","y","p","e","s",".","S","T","R","I","N","G">>

\* value.match(/^\w{3} \w{3} \d{2} \d{4} \d{2}:\d{2}:\d{2}/)
looksLikeDate(s) ==
  /\ Len(s) >= 24
  /\ \A i \in {1, 2, 3, 5, 6, 7} : IsWordChar(s[i])
  /\ \A i \in {4, 8, 11, 16} : s[i] = " "
  /\ \A i \in {9, 10, 12, 13, 14, 15, 17, 18, 20, 21, 23, 24} : IsDigit(s[i])
  /\ \A i \in {19, 22} : s[i] = ":"

\* the text of defaultValue in a column definition
formatDefaultValue(defaultValue) ==
  IF defaultValue.t = "object" /\ defaultValue.class = "Date" THEN <<"D","a","t","a","T","y","p","e","s",".","N","O","W">>
  ELSE IF IsString(defaultValue) THEN
    IF looksLikeDate(defaultValue.s) THEN <<"D","a","t","a","T","y","p","e","s",".","N","O","W">>
    ELSE <<"'">> \o defaultValue.s \o <<"'">>
  ELSE IF defaultValue.t = "function" THEN
    IF includes(String(defaultValue), <<"N","O","W">>) \/ includes(String(defaultValue), <<"C","U","R","R","E","N","T","_","T","I","M","E","S","T","A","M","P">>) THEN <<"D","a","t","a","T","y","p","e","s",".","N","O","W">>
    ELSE String(defaultValue)
  ELSE String(defaultValue)

\* JSON.stringify(references)
stringifyReferences(references) ==
  <<"{", "\"">> \o <<"m","o","d","e","l">> \o <<"\"", ":", "\"">> \o references.model \o <<"\"", ",", "\"">> \o <<"k","e","y">> \o <<"\"", ":", "\"">> \o references.key \o <<"\"", "}">>

formatColumnDefinition(columnDef) ==
  (IF Truthy(columnDef.type) THEN <<Entry("type", formatDataType(columnDef.type))>> ELSE <<>>)
  \o (IF columnDef.allowNull # Undef THEN <<Entry("allowNull", String(columnDef.allowNull))>> ELSE <<>>)
  \o (IF Truthy(columnDef.primaryKey) THEN <<Entry("primaryKey", <<"t","r","u","e">>)>> ELSE <<>>)
  \o (IF Truthy(columnDef.autoIncrement) THEN <<Entry("autoIncrement", <<"t","r","u","e">>)>> ELSE <<>>)
  \o (IF columnDef.defaultValue # Undef THEN <<Entry("defaultValue", formatDefaultValue(columnDef.defaultValue))>> ELSE <<>>)
  \o (IF Truthy(columnDef.unique) THEN <<Entry("unique", <<"t","r","u","e">>)>> ELSE <<>>)
  \o (IF Truthy(columnDef.references) THEN <<Entry("references", stringifyReferences(columnDef.references))>> ELSE <<>>)

\* one  await queryInterface.<op>(...)  line, or the NOTE comment of a dropped table
Call(op, table, column, definition) == [op |-> op, table |-> table, column |-> column, definition |-> definition]

Migration(up, down) == [up |-> up, down |-> down]

\* a change whose backward statement restores to instead of from
changeBackToTarget(tableName, column) ==
  CASE column.action = "add" ->
         Migration(<<Call("addColumn", tableName, column.column, formatColumnDefinition(column.to))>>,
                   <<Call("removeColumn", tableName, column.column, <<>>)>>)
    [] column.action = "remove" ->
         Migration(<<Call("removeColumn", tableName, column.column, <<>>)>>,
                   <<Call("addColumn", tableName, column.column, formatColumnDefinition(column.from))>>)
    [] column.action = "change" ->
         Migration(<<Call("changeColumn", tableName, column.column, formatColumnDefinition(column.to))>>,
                   <<Call("changeColumn", tableName, column.column, formatColumnDefinition(column.to))>>)
    [] OTHER -> Migration(<<>>, <<>>)

generateColumnMigration(tableName, column) ==
  CASE column.action = "add" ->
         Migration(<<Call("addColumn", tableName, column.column, formatColumnDefinition(column.to))>>,
                   <<Call("removeColumn", tableName, column.column, <<>>)>>)
    [] column.action = "remove" ->
         Migration(<<Call("removeColumn", tableName, column.column, <<>>)>>,
                   <<Call("addColumn", tableName, column.column, formatColumnDefinition(column.from))>>)
    [] column.action = "change" ->
         Migration(<<Call("changeColumn", tableName, column.column, formatColumnDefinition(column.to))>>,
                   <<Call("changeColumn", tableName, column.column, formatColumnDefinition(column.from))>>)
    [] OTHER -> Migration(<<>>, <<>>)

\* upStatements.push(up); downStatements.unshift(down), over items[i..]
RECURSIVE pushAndUnshift(_, _, _)
pushAndUnshift(items, i, acc) ==
  IF i > Len(items) THEN acc
  ELSE pushAndUnshift(items, i + 1, Migration(Append(acc.up, items[i].up), <<items[i].down>> \o acc.down))

\* statements.join('\n') of one-line statements
RECURSIVE joinLines(_)
joinLines(statements) == IF statements = <<>> THEN <<>> ELSE Head(statements) \o joinLines(Tail(statements))

\* backward statements pushed in the order of the diff instead of unshifted
backwardInDiffOrder(table) ==
  LET columns == IF Truthy(table.columns) THEN table.columns.items ELSE <<>>
      each == [i \in DOMAIN columns |-> generateColumnMigration(table.table, columns[i])]
  IN Migration(joinLines([i \in DOMAIN each |-> each[i].up]), joinLines([i \in DOMAIN each |-> each[i].down]))

generateAlterTable(table) ==
  LET columns == IF Truthy(table.columns) THEN table.columns.items ELSE <<>>
      each == [i \in DOMAIN columns |-> generateColumnMigration(table.table, columns[i])]
      both == pushAndUnshift(each, 1, Migration(<<>>, <<>>))
  IN Migration(joinLines(both.up), joinLines(both.down))

generateCreateTable(table) ==
  <<Call("createTable", table.table, <<>>,
         [i \in DOMAIN table.definition.entries |->
            Entry(table.definition.entries[i].name, formatColumnDefinition(table.definition.entries[i].value))])>>

generateDropTable(table) == <<Call("dropTable", table.table, <<>>, <<>>)>>

\* a drop whose backward statement is left empty
dropWithoutMarker(table) ==
  CASE table.action = "create" -> Migration(generateCreateTable(table), generateDropTable(table))
    [] table.action = "drop" -> Migration(generateDropTable(table), <<>>)
    [] table.action = "alter" -> generateAlterTable(table)
    [] OTHER -> Migration(<<>>, <<>>)

generateTableMigration(table) ==
  CASE table.action = "create" -> Migration(generateCreateTable(table), generateDropTable(table))
    [] table.action = "drop" -> Migration(generateDropTable(table), <<Call("NOTE: Cannot auto-generate recreate", table.table, <<>>, <<>>)>>)
    [] table.action = "alter" -> generateAlterTable(table)
    [] OTHER -> Migration(<<>>, <<>>)

\* statements.filter(stmt => stmt.trim()).join('\n\n'): the statements that hold a line
formatMigrationStatements(statements) == SelectSeq(statements, LAMBDA stmt : stmt # <<>>)

createMigrationData(diff) ==
  LET each == [i \in DOMAIN diff.tables |-> generateTableMigration(diff.tables[i])]
      both == pushAndUnshift(each, 1, Migration(<<>>, <<>>))
  IN Migration(formatMigrationStatements(both.up), formatMigrationStatements(both.down))

(***************************************************************************)
(* The database behind queryInterface, as the migration's calls change it. *)
(* A column added from a definition literal is described with the SQL      *)
(* spelling of its DataTypes construct and the facets the literal states.  *)
(***************************************************************************)
\* the SQL spelling of a DataTypes construct named in a migration
sqlOfDataType(text) ==
  IF \E i \in DOMAIN dataTypeMap : dataTypeMap[i][2] = text
  THEN dataTypeMap[CHOOSE i \in DOMAIN dataTypeMap : dataTypeMap[i][2] = text /\ \A j \in 1..(i - 1) : dataTypeMap[j][2] # text][1]
  ELSE <<"V","A","R","C","H","A","R","(">> \o SubSeq(text, Len(<<"D","a","t","a","T","y","p","e","s",".","S","T","R","I","N","G","(">>) + 1, Len(text) - 1) \o <<")">>

\* the value of a literal of a migration
evalLiteral(text) ==
  IF text = <<"D","a","t","a","T","y","p","e","s",".","N","O","W">> THEN JSNow
  ELSE IF text = <<"t","r","u","e">> THEN JSBool(TRUE)
  ELSE IF text = <<"f","a","l","s","e">> THEN JSBool(FALSE)
  ELSE IF text = <<"n","u","l","l">> THEN Null
  ELSE IF IsIntegerText(text) THEN parseInt(text)
  ELSE IF IsDecimalText(text) THEN parseFloat(text)
  ELSE IF IsQuoted(text) THEN JSStr(sliceQuotes(text))
  ELSE Undef

has(object, name) == arrayIncludes(keys(object), name)

\* the column queryInterface creates from a definition literal
columnOfDefinition(definition) ==
  Descriptor(IF has(definition, "type") THEN JSStr(sqlOfDataType(get(definition, "type"))) ELSE Undef,
             IF has(definition, "allowNull") THEN evalLiteral(get(definition, "allowNull")) ELSE JSBool(TRUE),
             JSBool(has(definition, "primaryKey")),
             JSBool(has(definition, "autoIncrement")),
             IF has(definition, "defaultValue") THEN evalLiteral(get(definition, "defaultValue")) ELSE Null,
             JSBool(has(definition, "unique")),
             Undef,
             Undef)

tableIndex(db, table) == CHOOSE i \in DOMAIN db : db[i].table = table

DbTable(table, columns) == [table |-> table, columns |-> columns]

\* one call of a migration, run against the database
applyCall(db, call) ==
  CASE call.op = "createTable" ->
         Append(db, DbTable(call.table, [i \in DOMAIN call.definition |-> Entry(call.definition[i].name, columnOfDefinition(call.definition[i].value))]))
    [] call.op = "dropTable" ->
         SelectSeq(db, LAMBDA tbl : tbl.table # call.table)
    [] call.op = "addColumn" ->
         [db EXCEPT ![tableIndex(db, call.table)].columns = Append(@, Entry(call.column, columnOfDefinition(call.definition)))]
    [] call.op = "removeColumn" ->
         [db EXCEPT ![tableIndex(db, call.table)].columns = SelectSeq(@, LAMBDA col : col.name # call.column)]
    [] call.op = "changeColumn" ->
         [db EXCEPT ![tableIndex(db, call.table)].columns =
            [i \in DOMAIN @ |-> IF @[i].name = call.column THEN Entry(call.column, columnOfDefinition(call.definition)) ELSE @[i]]]
    [] OTHER -> db

\* whether the database accepts the call; dropTable is DROP TABLE IF EXISTS, the NOTE is a comment, a column
\* needs a type
canApply(db, call) ==
  LET tableExists == arrayIncludes(dbTableNames(db), call.table)
      columnExists == tableExists /\ has(db[tableIndex(db, call.table)].columns, call.column)
  IN CASE call.op = "createTable" ->
            ~tableExists /\ \A i \in DOMAIN call.definition : has(call.definition[i].value, "type")
       [] call.op = "addColumn" -> tableExists /\ ~columnExists /\ has(call.definition, "type")
       [] call.op = "removeColumn" -> columnExists
       [] call.op = "changeColumn" -> columnExists /\ has(call.definition, "type")
       [] OTHER -> TRUE

\* the database a run leaves, and whether a call threw
Outcome(db, failed) == [db |-> db, failed |-> failed]

\* the calls in order, up to the first the database rejects
RECURSIVE applyCalls(_, _)
applyCalls(db, calls) ==
  IF calls = <<>> THEN Outcome(db, FALSE)
  ELSE IF ~canApply(db, Head(calls)) THEN Outcome(db, TRUE)
  ELSE applyCalls(applyCall(db, Head(calls)), Tail(calls))

\* migration.up(queryInterface) or migration.down(queryInterface): the statements in order
applyStatements(db, statements) == applyCalls(db, joinLines(statements))

(***************************************************************************)
(* Inputs: the dialects, the models of a project and the databases they    *)
(* are compared with.                                                      *)
(***************************************************************************)
\* the most columns of a table
MaxCols == 2

Dialects == {"postgres", "mysql", "mariadb", "sqlite", "mssql"}

Attribute(type, allowNull, primaryKey, autoIncrement, defaultValue, unique) ==
  Descriptor(JSType(type), allowNull, primaryKey, autoIncrement, defaultValue, unique, Undef, Undef)

Column(type, allowNull, defaultValue, primaryKey, autoIncrement, unique) ==
  Descriptor(JSStr(type), JSBool(allowNull), JSBool(primaryKey), autoIncrement, defaultValue, unique, Undef, Undef)

\* attributes a model may declare for a column name
DesiredOptions(name) ==
  CASE name = <<"i","d">> -> {Attribute(<<"I","N","T","E","G","E","R">>, Undef, JSBool(TRUE), Undef, Undef, Undef),
                       Attribute(<<"I","N","T","E","G","E","R">>, Undef, JSBool(TRUE), JSBool(TRUE), Undef, Undef)}
    [] name = <<"e","m","a","i","l">> -> {Attribute(<<"V","A","R","C","H","A","R","(","2","5","5",")">>, JSBool(FALSE), Undef, Undef, Undef, JSBool(TRUE))}
    [] name = <<"q","t","y">> -> {Attribute(<<"S","M","A","L","L","I","N","T">>, Undef, Undef, Undef, JSInt(0), Undef)}
    [] OTHER -> {}

\* columns describeTable may report for a column name
ActualOptions(name) ==
  CASE name = <<"i","d">> -> {Column(<<"I","N","T","E","G","E","R">>, FALSE, Null, TRUE, Undef, Undef),
                       Column(<<"I","N","T","E","G","E","R">>, FALSE, JSStr(<<"n","e","x","t","v","a","l","(","o","r","d","e","r","s","_","i","d","_","s","e","q",":",":","r","e","g","c","l","a","s","s",")">>), TRUE, Undef, Undef)}
    [] name = <<"e","m","a","i","l">> -> {Column(<<"C","H","A","R","A","C","T","E","R"," ","V","A","R","Y","I","N","G","(","2","5","5",")">>, FALSE, Null, FALSE, Undef, JSBool(TRUE)),
                          Column(<<"V","A","R","C","H","A","R","(","2","5","5",")">>, TRUE, Null, FALSE, Undef, Undef)}
    [] name = <<"q","t","y">> -> {Column(<<"S","M","A","L","L","I","N","T">>, TRUE, JSStr(<<"0">>), FALSE, Undef, Undef)}
    [] OTHER -> {}

ColumnNames == {<<"i","d">>, <<"e","m","a","i","l">>, <<"q","t","y">>}

None == [t |-> "none"]

\* a column name with what the model declares for it and what the table holds, either of which may be missing
ColumnCases ==
  {c \in [name : ColumnNames,
          desired : UNION {DesiredOptions(n) : n \in ColumnNames} \cup {None},
          actual : UNION {ActualOptions(n) : n \in ColumnNames} \cup {None}] :
     /\ c.desired \in DesiredOptions(c.name) \cup {None}
     /\ c.actual \in ActualOptions(c.name) \cup {None}
     /\ ~(c.desired = None /\ c.actual = None)}

\* the sequences of 1..MaxCols cases of distinct column names
RECURSIVE CaseLists(_)
CaseLists(n) ==
  IF n = 0 THEN {<<>>}
  ELSE LET shorter == CaseLists(n - 1)
       IN shorter \cup {Append(l, c) : l \in {l \in shorter : Len(l) = n - 1},
                                        c \in ColumnCases}

Layouts == {l \in CaseLists(MaxCols) : l # <<>> /\ \A i, j \in DOMAIN l : i # j => l[i].name # l[j].name}

reverse(seq) == [i \in DOMAIN seq |-> seq[Len(seq) + 1 - i]]

\* model.rawAttributes for a layout: the declared columns, in the order of the layout
attributesOf(layout) ==
  LET declared == SelectSeq(layout, LAMBDA c : c.desired # None)
  IN [i \in DOMAIN declared |-> Entry(declared[i].name, declared[i].desired)]

\* the columns of the table for a layout, in the order of the layout or in the reverse order
columnsOf(layout, reversed) ==
  LET held == SelectSeq(IF reversed THEN reverse(layout) ELSE layout, LAMBDA c : c.actual # None)
  IN [i \in DOMAIN held |-> Entry(held[i].name, held[i].actual)]

Model(name, tableName, rawAttributes) == [name |-> name, tableName |-> JSStr(tableName), rawAttributes |-> rawAttributes]

Environment(query, showAllTables, describe, failing) == [query |-> query, showAllTables |-> showAllTables, describe |-> describe, failing |-> failing]

Healthy == Environment("ok", "ok", "ok", <<>>)

Scenario(dialect, models, db, env) == [dialect |-> dialect, models |-> models, db |-> db, env |-> env]

\* one table, orders, in the models and in the database, with every layout of columns
ColumnScenarios ==
  {Scenario(d, <<Model(<<"O","r","d","e","r">>, <<"o","r","d","e","r","s">>, attributesOf(l))>>, <<DbTable(<<"o","r","d","e","r","s">>, columnsOf(l, r))>>, Healthy) :
     d \in Dialects, l \in Layouts, r \in BOOLEAN}

\* the sequences that keep some of the items of seq, in order
RECURSIVE SubSequences(_)
SubSequences(seq) ==
  IF seq = <<>> THEN {<<>>}
  ELSE LET rest == SubSequences(Tail(seq))
       IN rest \cup {<<Head(seq)>> \o r : r \in rest}

\* the attributes every model of the table scenarios declares
BaseAttributes ==
  <<Entry(<<"i","d">>, Attribute(<<"I","N","T","E","G","E","R">>, Undef, JSBool(TRUE), JSBool(TRUE), Undef, Undef)),
    Entry(<<"e","m","a","i","l">>, Attribute(<<"V","A","R","C","H","A","R","(","2","5","5",")">>, JSBool(FALSE), Undef, Undef, Undef, JSBool(TRUE)))>>

\* a table that holds exactly what the model declares
BaseColumns ==
  <<Entry(<<"i","d">>, Column(<<"I","N","T","E","G","E","R">>, FALSE, Undef, TRUE, JSBool(TRUE), Undef)),
    Entry(<<"e","m","a","i","l">>, Column(<<"V","A","R","C","H","A","R","(","2","5","5",")">>, FALSE, Undef, FALSE, Undef, JSBool(TRUE)))>>

\* a table that has drifted from the model: id is missing, qty is not declared, email is nullable and not unique
DriftedColumns ==
  <<Entry(<<"q","t","y">>, Column(<<"S","M","A","L","L","I","N","T">>, TRUE, JSStr(<<"0">>), FALSE, Undef, Undef)),
    Entry(<<"e","m","a","i","l">>, Column(<<"V","A","R","C","H","A","R","(","2","5","5",")">>, TRUE, Undef, FALSE, Undef, Undef))>>

ModelOf(tableName) == Model(tableName, tableName, BaseAttributes)

Environments ==
  {Healthy,
   Environment("fail", "ok", "ok", <<>>),
   Environment("fail", "fail", "ok", <<>>),
   Environment("ok", "ok", "does not exist", <<"o","r","d","e","r","s">>),
   Environment("ok", "ok", "timeout", <<"o","r","d","e","r","s">>)}

\* the tables showAllTables may list besides those of the project
SystemTables ==
  {<<"S","e","q","u","e","l","i","z","e","M","e","t","a">>, <<"s","q","l","i","t","e","_","s","e","q","u","e","n","c","e">>, <<"p","g","_","s","t","a","t","_","a","c","t","i","v","i","t","y">>, <<"i","n","f","o","r","m","a","t","i","o","n","_","s","c","h","e","m","a">>, <<"s","y","s">>, <<"s","q","l","_","f","e","a","t","u","r","e","s">>, <<"o","l","d","_","S","E","Q","U","E","L","I","Z","E","M","E","T","A">>}

\* projects of up to two models against databases of up to three of the project's tables, with or without
\* the migration-tracking table, under every environment
TableScenarios ==
  {Scenario(d,
            [i \in DOMAIN m |-> ModelOf(m[i])],
            [i \in DOMAIN meta |-> DbTable(meta[i], <<>>)]
              \o [i \in DOMAIN t |-> DbTable(t[i], IF t[i] = <<"o","r","d","e","r","s">> /\ drifted THEN DriftedColumns ELSE BaseColumns)],
            e) :
     d \in Dialects,
     m \in SubSequences(<<<<"o","r","d","e","r","s">>, <<"u","s","e","r","s">>>>),
     meta \in SubSequences(<<<<"S","e","q","u","e","l","i","z","e","M","e","t","a">>>>),
     t \in SubSequences(<<<<"l","e","g","a","c","y","_","l","o","g","s">>, <<"u","s","e","r","s">>, <<"o","r","d","e","r","s">>>>),
     drifted \in BOOLEAN,
     e \in Environments}

\* one unchanged table beside each system table, which a model may declare as well
SystemTableScenarios ==
  {Scenario(d,
            IF declared THEN <<ModelOf(<<"o","r","d","e","r","s">>), ModelOf(sys)>> ELSE <<ModelOf(<<"o","r","d","e","r","s">>)>>,
            <<DbTable(sys, <<>>), DbTable(<<"o","r","d","e","r","s">>, BaseColumns)>>,
            Healthy) :
     d \in Dialects, sys \in SystemTables, declared \in BOOLEAN}

\* an attribute declared without a type
TypelessAttributes ==
  <<BaseAttributes[1],
    Entry(<<"e","m","a","i","l">>, Descriptor(Undef, JSBool(FALSE), Undef, Undef, Undef, JSBool(TRUE), Undef, Undef))>>

\* a model with a type-less attribute against no table, a table without the column and a table with it
TypelessScenarios ==
  {Scenario(d, <<Model(<<"O","r","d","e","r">>, <<"o","r","d","e","r","s">>, TypelessAttributes)>>, tables, Healthy) :
     d \in Dialects,
     tables \in {<<>>, <<DbTable(<<"o","r","d","e","r","s">>, <<BaseColumns[1]>>)>>, <<DbTable(<<"o","r","d","e","r","s">>, BaseColumns)>>}}

\* a created_at timestamp that defaults to the current time: declared with DataTypes.NOW or a Date, held by
\* the table under a spelling of the database, or missing on one side
TimestampScenarios ==
  {Scenario(d,
            <<Model(<<"O","r","d","e","r">>, <<"o","r","d","e","r","s">>,
                    <<BaseAttributes[1]>> \o
                    (IF declared = None THEN <<>>
                     ELSE <<Entry(<<"c","r","e","a","t","e","d","_","a","t">>, Attribute(<<"D","A","T","E","T","I","M","E">>, Undef, Undef, Undef, declared, Undef))>>))>>,
            <<DbTable(<<"o","r","d","e","r","s">>,
                      <<BaseColumns[1]>> \o
                      (IF held = None THEN <<>>
                       ELSE <<Entry(<<"c","r","e","a","t","e","d","_","a","t">>, Column(<<"T","I","M","E","S","T","A","M","P"," ","W","I","T","H"," ","T","I","M","E"," ","Z","O","N","E">>, TRUE, held, FALSE, Undef, Undef))>>))>>,
            Healthy) :
     d \in Dialects,
     declared \in {None, JSNow, JSDate},
     held \in {None, JSStr(<<"n","o","w","(",")">>), JSStr(<<"C","U","R","R","E","N","T","_","T","I","M","E","S","T","A","M","P">>)}}

Scenarios ==
  ColumnScenarios \cup TableScenarios \cup SystemTableScenarios \cup TypelessScenarios \cup TimestampScenarios

\* the column types hasColumnChanged may be handed: what describeTable reports, what a model declares
ActualTypes ==
  {<<"I","N","T","E","G","E","R">>, <<"T","I","M","E">>, <<"T","I","M","E","S","T","A","M","P","T","Z">>, <<"T","I","M","E","S","T","A","M","P"," ","W","I","T","H"," ","T","I","M","E"," ","Z","O","N","E">>, <<"D","A","T","E","T","I","M","E">>, <<"D","O","U","B","L","E"," ","P","R","E","C","I","S","I","O","N">>, <<"F","L","O","A","T">>, <<"R","E","A","L">>,
   <<"V","A","R","C","H","A","R","(","2","5","5",")">>, <<"C","H","A","R","A","C","T","E","R"," ","V","A","R","Y","I","N","G","(","2","5","5",")">>, <<"U","S","E","R","-","D","E","F","I","N","E","D">>, <<"E","N","U","M","(","'","a","'",",","'","b","'",")">>, <<"T","E","X","T">>, <<"T","E","X","T","[","]">>, <<"I","N","T">>, <<"B","I","G","I","N","T">>}

DesiredTypes ==
  {JSType(<<"I","N","T","E","G","E","R">>), JSType(<<"T","I","M","E">>), JSType(<<"D","A","T","E","T","I","M","E">>), JSType(<<"D","O","U","B","L","E"," ","P","R","E","C","I","S","I","O","N">>), JSType(<<"F","L","O","A","T">>), JSType(<<"R","E","A","L">>),
   JSType(<<"V","A","R","C","H","A","R","(","2","5","5",")">>), JSType(<<"E","N","U","M">>), JSType(<<"T","E","X","T">>), JSType(<<"A","R","R","A","Y","<","T","E","X","T",">">>), JSStr(<<"T","I","M","E","S","T","A","M","P","T","Z">>), JSStr(<<"t","i","m","e">>),
   JSType(<<"A","R","R","A","Y","<","S","T","R","I","N","G",">">>), JSType(<<"T","E","X","T","[","]">>), JSType(<<"I","N","T","E","G","E","R","[","]">>), JSType(<<"B","I","G","I","N","T">>)}

VARIABLES dialect, models, db, env, dialectHandler, diff, migration, pc, existingType, modelType, typesEquivalent,
          existingColumn, modelColumn, comparison

vars == <<dialect, models, db, env, dialectHandler, diff, migration, pc, existingType, modelType, typesEquivalent,
          existingColumn, modelColumn, comparison>>

types == <<existingType, modelType, typesEquivalent>>

compared == <<existingColumn, modelColumn, comparison>>

\* this.dialectHandler before a SchemaDiffer is constructed
Unbound == "undefined"

Init ==
  /\ \E sc \in Scenarios :
       /\ dialect = sc.dialect
       /\ models = sc.models
       /\ db = sc.db
       /\ env = sc.env
  /\ dialectHandler = Unbound
  /\ diff = None
  /\ migration = None
  /\ pc = "start"
  /\ existingType = None
  /\ modelType = None
  /\ typesEquivalent = None
  /\ existingColumn = None
  /\ modelColumn = None
  /\ comparison = None

\* generateSchemaDiff(config): a new SchemaDiffer, which binds its handler, and the diff alone, as the diff
\* command shows it
GenerateSchemaDiff ==
  /\ pc \in {"start", "diffed"}
  /\ dialectHandler' = createDialectHandler(dialect)
  /\ diff' = generateDiff(dialect, models, db, env)
  /\ pc' = "diffed"
  /\ UNCHANGED <<dialect, models, db, env, migration, types, compared>>

\* MigrationGenerator.generate: null when nothing changed, else the migration file
Generate ==
  /\ pc \in {"start", "diffed"}
  /\ dialectHandler' = createDialectHandler(dialect)
  /\ diff' = generateDiff(dialect, models, db, env)
  /\ migration' = IF diff'.hasChanges THEN createMigrationData(diff') ELSE None
  /\ pc' = "generated"
  /\ UNCHANGED <<dialect, models, db, env, types, compared>>

\* MigrationRunner.runPendingMigrations: up() of the generated migration
RunPendingMigrations ==
  /\ pc = "generated"
  /\ migration # None
  /\ LET outcome == applyStatements(db, migration.up)
     IN /\ db' = outcome.db
        /\ pc' = IF outcome.failed THEN "failed" ELSE "migrated"
  /\ UNCHANGED <<dialect, models, env, dialectHandler, diff, migration, types, compared>>

\* MigrationRunner.rollbackLastMigration: down() of the migration that ran
RollbackLastMigration ==
  /\ pc = "migrated"
  /\ LET outcome == applyStatements(db, migration.down)
     IN /\ db' = outcome.db
        /\ pc' = IF outcome.failed THEN "failed" ELSE "rolledback"
  /\ UNCHANGED <<dialect, models, env, dialectHandler, diff, migration, types, compared>>

\* MigrationGenerator.generate once more, after the migration ran
Regenerate ==
  /\ pc = "migrated"
  /\ dialectHandler' = createDialectHandler(dialect)
  /\ diff' = generateDiff(dialect, models, db, env)
  /\ migration' = IF diff'.hasChanges THEN createMigrationData(diff') ELSE None
  /\ pc' = "regenerated"
  /\ UNCHANGED <<dialect, models, db, env, types, compared>>

Next == GenerateSchemaDiff \/ Generate \/ RunPendingMigrations \/ RollbackLastMigration \/ Regenerate

Spec == Init /\ [][Next]_vars

(***************************************************************************)
(* The type comparison of hasColumnChanged on its own: one column of the   *)
(* table against one attribute of the model, under each dialect.           *)
(***************************************************************************)
TypeComparison(existing, model, equivalent) == [existing |-> existing, model |-> model, equivalent |-> equivalent]

TypeInit ==
  /\ dialect \in Dialects
  /\ existingType \in {JSStr(type) : type \in ActualTypes}
  /\ modelType \in DesiredTypes
  /\ typesEquivalent = None
  /\ models = <<>>
  /\ db = <<>>
  /\ env = Healthy
  /\ dialectHandler = createDialectHandler(dialect)
  /\ diff = None
  /\ migration = None
  /\ pc = "start"
  /\ existingColumn = None
  /\ modelColumn = None
  /\ comparison = None

\* hasColumnChanged, up to its type check: both types normalized, then compared
CompareTypes ==
  /\ pc = "start"
  /\ LET handler == createDialectHandler(dialect)
         existing == normalizeType(handler, getTypeString(existingType))
         model == normalizeType(handler, getTypeString(modelType))
     IN typesEquivalent' = TypeComparison(existing, model, areTypesEquivalent(existing, model))
  /\ pc' = "compared"
  /\ UNCHANGED <<dialect, models, db, env, dialectHandler, diff, migration, existingType, modelType, compared>>

TypeNext == CompareTypes

TypeSpec == TypeInit /\ [][TypeNext]_vars

(***************************************************************************)
(* hasColumnChanged on its own: one column that describeTable reports      *)
(* against one attribute of the model, under each dialect.                 *)
(***************************************************************************)
\* how a reported column is marked as key: not at all, primary key, primary key with the autoIncrement flag,
\* primary key with extra 'auto_increment'
KeyMarks == {"none", "key", "flag", "extra"}

\* the columns describeTable may report
ExistingColumns ==
  {Descriptor(JSStr(type), JSBool(allowNull /\ mark = "none"), JSBool(mark # "none"),
              IF mark = "flag" THEN JSBool(TRUE) ELSE Undef, defaultValue, unique, Undef,
              IF mark = "extra" THEN JSStr(<<"a","u","t","o","_","i","n","c","r","e","m","e","n","t">>) ELSE Undef) :
     type \in {<<"I","N","T","E","G","E","R">>, <<"T","I","N","Y","I","N","T","(","1",")">>},
     allowNull \in BOOLEAN,
     mark \in KeyMarks,
     defaultValue \in {Null, JSStr(<<"1">>), JSStr(<<"0">>), JSStr(<<"n","e","x","t","v","a","l","(","o","r","d","e","r","s","_","i","d","_","s","e","q",":",":","r","e","g","c","l","a","s","s",")">>)},
     unique \in {Undef, JSBool(TRUE)}}

\* the attributes a model may declare
ModelColumns ==
  {Attribute(type, allowNull, primaryKey, autoIncrement, defaultValue, unique) :
     type \in {<<"I","N","T","E","G","E","R">>, <<"B","O","O","L","E","A","N">>, <<"T","I","N","Y","I","N","T","(","1",")">>},
     allowNull \in {Undef, JSBool(FALSE)},
     primaryKey \in {Undef, JSBool(TRUE)},
     autoIncrement \in {Undef, JSBool(TRUE)},
     defaultValue \in {Undef, JSBool(TRUE), JSInt(0)},
     unique \in {Undef, JSBool(TRUE)}}

\* a timestamp column whose default is a spelling of the current time, under an attribute whose default is
\* DataTypes.NOW or a Date
TimestampPairs ==
  {<<Column(type, TRUE, JSStr(spelling), FALSE, Undef, Undef), Attribute(<<"D","A","T","E","T","I","M","E">>, Undef, Undef, Undef, defaultValue, Undef)>> :
     type \in {<<"T","I","M","E","S","T","A","M","P"," ","W","I","T","H"," ","T","I","M","E"," ","Z","O","N","E">>, <<"D","A","T","E","T","I","M","E">>},
     spelling \in {<<"n","o","w","(",")">>, <<"C","U","R","R","E","N","T","_","T","I","M","E","S","T","A","M","P">>, <<"c","u","r","r","e","n","t","_","t","i","m","e","s","t","a","m","p","(",")">>, <<"d","a","t","e","t","i","m","e","(","'","n","o","w","'",")">>},
     defaultValue \in {JSNow, JSDate}}

\* a boolean column whose default is reported in one of the encodings of the dialects, under a boolean attribute
BooleanDefaultPairs ==
  {<<Column(type, TRUE, JSStr(encoding), FALSE, Undef, Undef), Attribute(declared, Undef, Undef, Undef, JSBool(defaultValue), Undef)>> :
     type \in {<<"B","O","O","L","E","A","N">>, <<"T","I","N","Y","I","N","T","(","1",")">>},
     encoding \in {<<"1">>, <<"0">>, <<"t">>, <<"f">>, <<"t","r","u","e">>, <<"f","a","l","s","e">>},
     declared \in {<<"B","O","O","L","E","A","N">>, <<"T","I","N","Y","I","N","T","(","1",")">>},
     defaultValue \in BOOLEAN}

\* the pairs hasColumnChanged may be handed
ColumnPairs == (ExistingColumns \X ModelColumns) \cup TimestampPairs \cup BooleanDefaultPairs

ColumnComparison(changed, logged) == [changed |-> changed, logged |-> logged]

ColumnInit ==
  /\ dialect \in Dialects
  /\ \E pair \in ColumnPairs :
       /\ existingColumn = pair[1]
       /\ modelColumn = pair[2]
  /\ comparison = None
  /\ models = <<>>
  /\ db = <<>>
  /\ env = Healthy
  /\ dialectHandler = createDialectHandler(dialect)
  /\ diff = None
  /\ migration = None
  /\ pc = "start"
  /\ existingType = None
  /\ modelType = None
  /\ typesEquivalent = None

\* hasColumnChanged(existingColumn, modelColumn): what it returns and what it logs
CompareColumns ==
  /\ pc = "start"
  /\ comparison' = ColumnComparison(hasColumnChanged(dialectHandler, existingColumn, modelColumn),
                                    loggedDifference(dialectHandler, existingColumn, modelColumn))
  /\ pc' = "compared"
  /\ UNCHANGED <<dialect, models, db, env, dialectHandler, diff, migration, types, existingColumn, modelColumn>>

ColumnNext == CompareColumns

ColumnSpec == ColumnInit /\ [][ColumnNext]_vars

(***************************************************************************)
(* Properties of the diff                                                  *)
(***************************************************************************)
Range(seq) == {seq[i] : i \in DOMAIN seq}

indexOf(seq, item) == CHOOSE i \in DOMAIN seq : seq[i] = item

\* diff is the diff of the models against the database as it stands
Diffed == pc \in {"diffed", "generated"}

\* the desired tables, in the order of the models
desiredTables == [i \in DOMAIN models |-> tableNameOf(models[i])]

\* the actual tables the differ works with, after system-table filtering
actualTables == getExistingTables(dialect, db, env)

actionsFor(tableName) == {diff.tables[k].action : k \in {k \in DOMAIN diff.tables : diff.tables[k].table = tableName}}

absent(value) == value = Undef \/ value = Null

\* the column holds what the attribute declares, facet by facet
sameFacets(attribute, column) ==
  /\ IsString(column.type)
  /\ column.type.s = String(attribute.type)
  /\ (column.allowNull = JSBool(TRUE)) = (attribute.allowNull # JSBool(FALSE) /\ ~Truthy(attribute.primaryKey))
  /\ Truthy(column.primaryKey) = Truthy(attribute.primaryKey)
  /\ Truthy(column.autoIncrement) = Truthy(attribute.autoIncrement)
  /\ Truthy(column.unique) = Truthy(attribute.unique)
  /\ \/ absent(column.defaultValue) /\ absent(attribute.defaultValue)
     \/ column.defaultValue = attribute.defaultValue

\* the database holds exactly the tables and columns the models declare
IdenticalSnapshot ==
  /\ Len(db) = Len(models)
  /\ Range(dbTableNames(db)) = Range(desiredTables)
  /\ \A i \in DOMAIN models :
       LET columns == db[tableIndex(db, tableNameOf(models[i]))].columns
           attributes == models[i].rawAttributes
       IN /\ Len(columns) = Len(attributes)
          /\ Range(keys(columns)) = Range(keys(attributes))
          /\ \A a \in DOMAIN attributes : sameFacets(attributes[a].value, get(columns, attributes[a].name))

\* C1 (idempotence): when the database holds exactly what the models declare (same tables, same columns, each
\* column with the same type, nullability, primary-key, auto-increment, unique and default facets) and the
\* database answers every query, the diff has hasChanges = false and no tables, under every dialect.
C1_Idempotence ==
  (Diffed /\ env = Healthy /\ IdenticalSnapshot) => (~diff.hasChanges /\ diff.tables = <<>>)

\* an identical snapshot whose diff is empty
C1_IdenticalUnchanged ==
  Diffed /\ env = Healthy /\ IdenticalSnapshot /\ models # <<>> /\ diff.tables = <<>>

\* CHARACTER VARYING(n) and VARCHAR(n) spell one type
canonicalSqlType(sql) ==
  LET upper == toUpperCase(sql)
  IN IF startsWith(upper, <<"C","H","A","R","A","C","T","E","R"," ","V","A","R","Y","I","N","G">>) THEN <<"V","A","R","C","H","A","R">> \o SubSeq(upper, Len(<<"C","H","A","R","A","C","T","E","R"," ","V","A","R","Y","I","N","G">>) + 1, Len(upper))
     ELSE upper

\* the column is what the descriptor captured before the migration
restores(from, column) ==
  /\ IsString(column.type)
  /\ canonicalSqlType(column.type.s) = canonicalSqlType(String(from.type))
  /\ column.allowNull = from.allowNull
  /\ Truthy(column.primaryKey) = Truthy(from.primaryKey)
  /\ Truthy(column.autoIncrement) = Truthy(from.autoIncrement)
  /\ Truthy(column.unique) = Truthy(from.unique)
  /\ \/ absent(column.defaultValue) /\ absent(from.defaultValue)
     \/ column.defaultValue = from.defaultValue

\* C2 (reversibility): once the migration has run forward and then backward, every column of an altered
\* table is as it was before the diff: absent for an add, the from descriptor (its type included) for a
\* remove and for a change.
C2_Reversibility ==
  pc = "rolledback" =>
    \A k \in DOMAIN diff.tables :
      diff.tables[k].action = "alter" =>
        LET columns == db[tableIndex(db, diff.tables[k].table)].columns
            items == diff.tables[k].columns.items
        IN \A j \in DOMAIN items :
             IF items[j].action = "add" THEN ~has(columns, items[j].column)
             ELSE has(columns, items[j].column) /\ restores(items[j].from, get(columns, items[j].column))

\* a migration that altered columns has run forward and backward
C2_RolledBackAlter ==
  pc = "rolledback" /\ \E k \in DOMAIN diff.tables : diff.tables[k].action = "alter"

\* whether the table of the model, as the differ can read it, differs from the model in some column
columnsDiffer(model) ==
  LET tableName == tableNameOf(model)
      handler == createDialectHandler(dialect)
  IN /\ ~describeFails(env, tableName)
     /\ arrayIncludes(dbTableNames(db), tableName)
     /\ LET columns == db[tableIndex(db, tableName)].columns
            attributes == model.rawAttributes
        IN \/ \E a \in DOMAIN attributes :
                \/ ~has(columns, attributes[a].name)
                \/ hasColumnChanged(handler, get(columns, attributes[a].name), attributes[a].value)
           \/ \E c \in DOMAIN columns : ~has(attributes, columns[c].name)

\* C3 (partition): every table name, desired or actual after filtering, is in at most one entry of the diff:
\* a create iff it is desired and not actual, a drop iff it is actual and not desired, an alter iff it is
\* both and some column differs; the diff names no other table and no alter has an empty columns list.
C3_Partition ==
  Diffed =>
    LET desiredNames == Range(desiredTables)
        actualNames == Range(actualTables)
    IN /\ \A tableName \in desiredNames \cup actualNames :
            LET desired == tableName \in desiredNames
                actual == tableName \in actualNames
                actions == actionsFor(tableName)
            IN /\ Cardinality({k \in DOMAIN diff.tables : diff.tables[k].table = tableName}) <= 1
               /\ ("create" \in actions) = (desired /\ ~actual)
               /\ ("drop" \in actions) = (actual /\ ~desired)
               /\ ("alter" \in actions) =
                    (desired /\ actual /\ columnsDiffer(models[indexOf(desiredTables, tableName)]))
       /\ \A k \in DOMAIN diff.tables :
            /\ diff.tables[k].table \in desiredNames \cup actualNames
            /\ diff.tables[k].action \in {"create", "alter", "drop"}
            /\ diff.tables[k].action = "alter" => diff.tables[k].columns.items # <<>>

\* one diff with a created, an altered and a dropped table, beside a system table it leaves out
C3_EveryPart ==
  /\ Diffed
  /\ {"create", "alter", "drop"} \subseteq {diff.tables[k].action : k \in DOMAIN diff.tables}
  /\ Len(actualTables) < Len(db)

\* C4 (symmetry): the type-equivalence predicate answers the same for the two tags of a comparison taken in
\* either order, under every dialect handler: equivalent(a, b) = equivalent(b, a).
C4_Symmetry ==
  pc = "compared" =>
    typesEquivalent.equivalent = areTypesEquivalent(typesEquivalent.model, typesEquivalent.existing)

\* two different tags that were found equivalent
C4_EquivalentTags ==
  pc = "compared" /\ typesEquivalent.equivalent /\ typesEquivalent.existing # typesEquivalent.model

\* the entries of the diff: creates and alters in the order of the models, then drops in the order of the
\* database's tables
TablesInOrder ==
  \A i, j \in DOMAIN diff.tables :
    i < j =>
      LET a == diff.tables[i]
          b == diff.tables[j]
      IN /\ ~(a.action = "drop" /\ b.action # "drop")
         /\ (a.action # "drop" /\ b.action # "drop") =>
              indexOf(desiredTables, a.table) < indexOf(desiredTables, b.table)
         /\ (a.action = "drop" /\ b.action = "drop") =>
              indexOf(dbTableNames(db), a.table) < indexOf(dbTableNames(db), b.table)

\* the entries of every alter: adds and changes in the order of the model's attributes, then removes in the
\* order of the table's columns
ColumnsInOrder ==
  \A k \in DOMAIN diff.tables :
    diff.tables[k].action = "alter" =>
      LET items == diff.tables[k].columns.items
          attributes == keys(models[indexOf(desiredTables, diff.tables[k].table)].rawAttributes)
          columns == keys(db[tableIndex(db, diff.tables[k].table)].columns)
      IN \A i, j \in DOMAIN items :
           i < j =>
             /\ ~(items[i].action = "remove" /\ items[j].action # "remove")
             /\ (items[i].action # "remove" /\ items[j].action # "remove") =>
                  indexOf(attributes, items[i].column) < indexOf(attributes, items[j].column)
             /\ (items[i].action = "remove" /\ items[j].action = "remove") =>
                  indexOf(columns, items[i].column) < indexOf(columns, items[j].column)

\* C5 (determinism): a diff run over the inputs of an earlier run gives the same diff again, and the order of
\* its entries is fixed by the inputs: creates and alters in model order then drops in actual-table order;
\* within a table adds and changes in model-column order then removes in actual-column order.
C5_Determinism ==
  /\ [](Diffed => (TablesInOrder /\ ColumnsInOrder))
  /\ [][(pc = "diffed" /\ pc' \in {"diffed", "generated"}) => diff' = diff]_vars

\* a diff with two drops and an alter with a change ahead of a remove
C5_OrderedRerun ==
  /\ pc = "diffed"
  /\ Cardinality({k \in DOMAIN diff.tables : diff.tables[k].action = "drop"}) >= 2
  /\ \E k \in DOMAIN diff.tables :
       /\ diff.tables[k].action = "alter"
       /\ \E i, j \in DOMAIN diff.tables[k].columns.items :
            /\ i < j
            /\ diff.tables[k].columns.items[i].action # "remove"
            /\ diff.tables[k].columns.items[j].action = "remove"

(***************************************************************************)
(* Properties of the generated migration                                   *)
(***************************************************************************)
\* a migration was generated from diff and has not run yet
Generated == pc = "generated" /\ migration # None

Marker == "NOTE: Cannot auto-generate recreate"

\* the backward operation that undoes the forward operation
inverseOps(forward, backward) ==
  <<forward, backward>> \in {<<"addColumn", "removeColumn">>, <<"removeColumn", "addColumn">>,
                             <<"changeColumn", "changeColumn">>, <<"createTable", "dropTable">>,
                             <<"dropTable", Marker>>}

\* the statement of the k-th entry of the diff in migration.up, and its counterpart in migration.down
forwardOf(k) == migration.up[k]

backwardOf(k) == migration.down[Len(diff.tables) + 1 - k]

\* one statement per entry of the diff, forward and backward
OnePerEntry == Len(migration.up) = Len(diff.tables) /\ Len(migration.down) = Len(diff.tables)

\* C6 (ordering of the plan): the forward statements follow the order of the diff and the backward
\* statements the reverse order: the k-th forward operation is undone by the k-th operation from the end
\* of the backward sequence, for the tables of the plan and for the columns of each altered table.
C6_PlanOrdering ==
  Generated =>
    /\ OnePerEntry
    /\ \A k \in DOMAIN diff.tables :
         LET entry == diff.tables[k]
             forward == forwardOf(k)
             backward == backwardOf(k)
             count == IF entry.action = "alter" THEN Len(entry.columns.items) ELSE 1
         IN /\ Len(forward) = count
            /\ Len(backward) = count
            /\ \A j \in 1..count :
                 /\ forward[j].table = entry.table
                 /\ backward[count + 1 - j].table = entry.table
                 /\ inverseOps(forward[j].op, backward[count + 1 - j].op)
                 /\ entry.action = "alter" =>
                      /\ forward[j].column = entry.columns.items[j].column
                      /\ backward[count + 1 - j].column = entry.columns.items[j].column

\* a plan of several tables, one of them altered in several columns
C6_SeveralTablesAndColumns ==
  /\ Generated
  /\ Len(diff.tables) >= 3
  /\ \E k \in DOMAIN diff.tables : diff.tables[k].action = "alter" /\ Len(diff.tables[k].columns.items) >= 3

\* the forward and the backward call the generator owes a ColumnDifference
columnPair(tableName, item) ==
  CASE item.action = "add" ->
         <<Call("addColumn", tableName, item.column, formatColumnDefinition(item.to)),
           Call("removeColumn", tableName, item.column, <<>>)>>
    [] item.action = "remove" ->
         <<Call("removeColumn", tableName, item.column, <<>>),
           Call("addColumn", tableName, item.column, formatColumnDefinition(item.from))>>
    [] item.action = "change" ->
         <<Call("changeColumn", tableName, item.column, formatColumnDefinition(item.to)),
           Call("changeColumn", tableName, item.column, formatColumnDefinition(item.from))>>

\* C7 (column pairs): for each ColumnDifference of an alter the migration holds exactly this pair on the same
\* table and column: add -> addColumn(to) / removeColumn; remove -> removeColumn / addColumn(from);
\* change -> changeColumn(to) / changeColumn(from).
C7_ColumnPairs ==
  Generated =>
    /\ OnePerEntry
    /\ \A k \in DOMAIN diff.tables :
         diff.tables[k].action = "alter" =>
           LET items == diff.tables[k].columns.items
               forward == forwardOf(k)
               backward == backwardOf(k)
           IN /\ Len(forward) = Len(items)
              /\ Len(backward) = Len(items)
              /\ \A j \in DOMAIN items :
                   /\ items[j].action \in {"add", "remove", "change"}
                   /\ <<forward[j], backward[Len(items) + 1 - j]>> = columnPair(diff.tables[k].table, items[j])

\* an alter with an add, a change and a remove
C7_AddChangeRemove ==
  /\ Generated
  /\ \E k \in DOMAIN diff.tables :
       /\ diff.tables[k].action = "alter"
       /\ {"add", "change", "remove"} \subseteq {diff.tables[k].columns.items[j].action : j \in DOMAIN diff.tables[k].columns.items}

\* C8 (table pairs): for a create the forward operation is one createTable with every column of the
\* definition and the backward operation drops the same table; for a drop the forward operation drops the
\* table and the backward operation is the explicit marker, kept in the backward sequence, never a createTable.
C8_TablePairs ==
  Generated =>
    /\ OnePerEntry
    /\ \A k \in DOMAIN diff.tables :
         LET entry == diff.tables[k]
         IN /\ entry.action = "create" =>
                 /\ Len(forwardOf(k)) = 1
                 /\ forwardOf(k)[1].op = "createTable"
                 /\ forwardOf(k)[1].table = entry.table
                 /\ keys(forwardOf(k)[1].definition) = keys(entry.definition.entries)
                 /\ \A c \in DOMAIN entry.definition.entries :
                      forwardOf(k)[1].definition[c].value = formatColumnDefinition(entry.definition.entries[c].value)
                 /\ backwardOf(k) = <<Call("dropTable", entry.table, <<>>, <<>>)>>
            /\ entry.action = "drop" =>
                 /\ forwardOf(k) = <<Call("dropTable", entry.table, <<>>, <<>>)>>
                 /\ Len(backwardOf(k)) = 1
                 /\ backwardOf(k)[1].op = Marker
                 /\ backwardOf(k)[1].table = entry.table
    /\ \A k \in DOMAIN migration.down : \A j \in DOMAIN migration.down[k] : migration.down[k][j].op # "createTable"

\* a plan that creates one table and drops another
C8_CreateAndDrop ==
  /\ Generated
  /\ \E k \in DOMAIN diff.tables : diff.tables[k].action = "create" /\ Len(diff.tables[k].definition.entries) >= 2
  /\ \E k \in DOMAIN diff.tables : diff.tables[k].action = "drop"

\* C9 (create entries): for each desired table absent from the filtered actual tables the diff has a create
\* entry whose definition has one entry for every attribute of the model and no other, and hasChanges is true.
C9_CreateEntries ==
  Diffed =>
    LET actualNames == Range(actualTables)
    IN \A i \in DOMAIN models :
         tableNameOf(models[i]) \notin actualNames =>
           /\ diff.hasChanges
           /\ \E k \in DOMAIN diff.tables :
                /\ diff.tables[k].table = tableNameOf(models[i])
                /\ diff.tables[k].action = "create"
                /\ diff.tables[k].definition # Undef
                /\ keys(diff.tables[k].definition.entries) = keys(models[i].rawAttributes)

\* a model of two attributes whose table the database lacks, beside tables the database has
C9_MissingTable ==
  /\ Diffed
  /\ env = Healthy
  /\ actualTables # <<>>
  /\ \E i \in DOMAIN models :
       /\ ~arrayIncludes(dbTableNames(db), tableNameOf(models[i]))
       /\ Len(models[i].rawAttributes) >= 2
       /\ \E k \in DOMAIN diff.tables : diff.tables[k].table = tableNameOf(models[i]) /\ diff.tables[k].action = "create"

\* C10 (drop entries): for each actual table, after system-table filtering, that no model declares, the diff
\* has a drop entry that carries neither a definition nor a columns list.
C10_DropEntries ==
  Diffed =>
    \A tableName \in Range(actualTables) \ Range(desiredTables) :
      \E k \in DOMAIN diff.tables :
        /\ diff.tables[k].table = tableName
        /\ diff.tables[k].action = "drop"
        /\ diff.tables[k].definition = Undef
        /\ diff.tables[k].columns = Undef

\* an undeclared table is dropped while the migration-tracking table beside it is left alone
C10_LegacyTable ==
  /\ Diffed
  /\ arrayIncludes(dbTableNames(db), <<"S","e","q","u","e","l","i","z","e","M","e","t","a">>)
  /\ models # <<>>
  /\ \E k \in DOMAIN diff.tables : diff.tables[k].table = <<"l","e","g","a","c","y","_","l","o","g","s">> /\ diff.tables[k].action = "drop"
  /\ \A k \in DOMAIN diff.tables : diff.tables[k].table # <<"S","e","q","u","e","l","i","z","e","M","e","t","a">>

(***************************************************************************)
(* Properties of the column differences and of the SchemaDiff record       *)
(***************************************************************************)
\* the entries of an alter that name the column
itemsFor(items, columnName) == {j \in DOMAIN items : items[j].column = columnName}

\* C11 (column partition): within an alter each column name has at most one ColumnDifference: an add iff the
\* column is in the desired table only (with to, without from), a remove iff it is in the actual table only
\* (with from, without to), a change iff it is in both and hasColumnChanged is true (with from and to); a
\* column in both that is unchanged has no entry, and the alter names no other column.
C11_ColumnPartition ==
  Diffed =>
    \A k \in DOMAIN diff.tables :
      diff.tables[k].action = "alter" =>
        LET items == diff.tables[k].columns.items
            attributes == models[indexOf(desiredTables, diff.tables[k].table)].rawAttributes
            columns == db[tableIndex(db, diff.tables[k].table)].columns
            handler == createDialectHandler(dialect)
        IN /\ \A columnName \in Range(keys(attributes)) \cup Range(keys(columns)) :
                LET desired == has(attributes, columnName)
                    actual == has(columns, columnName)
                    entries == itemsFor(items, columnName)
                    actions == {items[j].action : j \in entries}
                IN /\ Cardinality(entries) <= 1
                   /\ ("add" \in actions) = (desired /\ ~actual)
                   /\ ("remove" \in actions) = (actual /\ ~desired)
                   /\ ("change" \in actions) =
                        (desired /\ actual /\ hasColumnChanged(handler, get(columns, columnName), get(attributes, columnName)))
                   /\ \A j \in entries :
                        /\ items[j].action = "add" =>
                             items[j].from = Undef /\ items[j].to = convertAttributeToQueryInterface(get(attributes, columnName))
                        /\ items[j].action = "remove" =>
                             items[j].to = Undef /\ items[j].from = get(columns, columnName)
                        /\ items[j].action = "change" =>
                             /\ items[j].from = get(columns, columnName)
                             /\ items[j].to = convertAttributeToQueryInterface(get(attributes, columnName))
           /\ \A j \in DOMAIN items :
                /\ items[j].action \in {"add", "remove", "change"}
                /\ items[j].column \in Range(keys(attributes)) \cup Range(keys(columns))

\* an alter that leaves one common column alone and removes another column
C11_UnchangedBesideRemoved ==
  /\ pc = "diffed"
  /\ \E k \in DOMAIN diff.tables :
       /\ diff.tables[k].action = "alter"
       /\ \E j \in DOMAIN diff.tables[k].columns.items : diff.tables[k].columns.items[j].action = "remove"
       /\ \E a \in DOMAIN models[indexOf(desiredTables, diff.tables[k].table)].rawAttributes :
            LET columnName == models[indexOf(desiredTables, diff.tables[k].table)].rawAttributes[a].name
            IN /\ has(db[tableIndex(db, diff.tables[k].table)].columns, columnName)
               /\ itemsFor(diff.tables[k].columns.items, columnName) = {}

\* C12 (hasChanges): in every SchemaDiff that generateDiff returns, hasChanges is true iff the tables list is
\* not empty.
C12_HasChanges ==
  Diffed => (diff.hasChanges = (diff.tables # <<>>))

\* a diff without tables, of a project that has models and a database that has tables
C12_NothingChanged ==
  Diffed /\ models # <<>> /\ db # <<>> /\ diff.tables = <<>> /\ ~diff.hasChanges

(***************************************************************************)
(* Scenarios of the specification: equal columns in different spellings    *)
(***************************************************************************)
\* the column agrees with the attribute in nullability, primary key, auto-increment and unique
sameConstraints(attribute, column) ==
  /\ (column.allowNull = JSBool(TRUE)) = (attribute.allowNull # JSBool(FALSE) /\ ~Truthy(attribute.primaryKey))
  /\ Truthy(column.primaryKey) = Truthy(attribute.primaryKey)
  /\ Truthy(column.autoIncrement) = Truthy(attribute.autoIncrement)
  /\ Truthy(column.unique) = Truthy(attribute.unique)

\* the pairs <<model, column name>> whose table the differ lists and describes
comparedColumns ==
  {pair \in UNION {{<<i, models[i].rawAttributes[a].name>> : a \in DOMAIN models[i].rawAttributes} : i \in DOMAIN models} :
     /\ arrayIncludes(actualTables, tableNameOf(models[pair[1]]))
     /\ ~describeFails(env, tableNameOf(models[pair[1]]))
     /\ has(db[tableIndex(db, tableNameOf(models[pair[1]]))].columns, pair[2])}

desiredColumn(pair) == get(models[pair[1]].rawAttributes, pair[2])

actualColumn(pair) == get(db[tableIndex(db, tableNameOf(models[pair[1]]))].columns, pair[2])

\* the diff holds a column difference for the pair
reported(pair) ==
  \E k \in DOMAIN diff.tables :
    /\ diff.tables[k].table = tableNameOf(models[pair[1]])
    /\ diff.tables[k].action = "alter"
    /\ itemsFor(diff.tables[k].columns.items, pair[2]) # {}

\* a varchar(255) attribute over a column reported as character varying(255), with equal constraints and no default
VarcharPair(pair) ==
  /\ String(desiredColumn(pair).type) = <<"V","A","R","C","H","A","R","(","2","5","5",")">>
  /\ actualColumn(pair).type = JSStr(<<"C","H","A","R","A","C","T","E","R"," ","V","A","R","Y","I","N","G","(","2","5","5",")">>)
  /\ sameConstraints(desiredColumn(pair), actualColumn(pair))
  /\ absent(desiredColumn(pair).defaultValue) /\ absent(actualColumn(pair).defaultValue)

\* C13 (scenario B): under the PostgreSQL handler a desired varchar(255) column and an actual column reported
\* as character varying(255) both normalize to the tag varchar, and with the other facets equal the diff holds
\* no column difference for it.
C13_VaryingIsVarchar ==
  (Diffed /\ dialect = "postgres") =>
    \A pair \in comparedColumns :
      VarcharPair(pair) =>
        /\ normalizeType(createDialectHandler(dialect), getTypeString(desiredColumn(pair).type)) = <<"v","a","r","c","h","a","r">>
        /\ normalizeType(createDialectHandler(dialect), getTypeString(actualColumn(pair).type)) = <<"v","a","r","c","h","a","r">>
        /\ ~reported(pair)

\* a PostgreSQL diff over a varchar(255) attribute and a character varying(255) column
C13_VarcharCompared ==
  Diffed /\ dialect = "postgres" /\ \E pair \in comparedColumns : VarcharPair(pair)

\* a non-key attribute with default 0 over an equal column whose default is reported as the string "0"
ZeroDefaultPair(pair) ==
  /\ desiredColumn(pair).defaultValue = JSInt(0)
  /\ actualColumn(pair).defaultValue = JSStr(<<"0">>)
  /\ actualColumn(pair).type = JSStr(String(desiredColumn(pair).type))
  /\ sameConstraints(desiredColumn(pair), actualColumn(pair))
  /\ ~Truthy(desiredColumn(pair).primaryKey)

\* C14 (scenario C): under each of the PostgreSQL, MySQL and SQLite handlers an actual default "0" and a desired
\* default 0 both normalize to the integer 0, and the diff holds no column difference for an otherwise equal
\* non-key column.
C14_ZeroDefault ==
  (Diffed /\ dialect \in {"postgres", "mysql", "sqlite"}) =>
    \A pair \in comparedColumns :
      ZeroDefaultPair(pair) =>
        /\ normalizeDefaultValue(createDialectHandler(dialect), actualColumn(pair).defaultValue) = JSInt(0)
        /\ normalizeDefaultValue(createDialectHandler(dialect), desiredColumn(pair).defaultValue) = JSInt(0)
        /\ ~reported(pair)

\* a MySQL diff over a default 0 and a reported default "0"
C14_ZeroCompared ==
  Diffed /\ dialect = "mysql" /\ \E pair \in comparedColumns : ZeroDefaultPair(pair)

(***************************************************************************)
(* Failures of introspection                                               *)
(***************************************************************************)
\* every call that lists the tables throws: showAllTables and, under postgres, the direct query before it
CannotListTables == env.showAllTables = "fail" /\ (dialect = "postgres" => env.query = "fail")

\* C16 (introspection failure): when the list of actual tables cannot be retrieved at all, the diff run aborts
\* with the error and generateSchemaDiff returns no SchemaDiff.
C16_ListingFailureIsFatal ==
  CannotListTables => diff = None

\* a SchemaDiff returned although no call could list the tables: it creates the tables the database holds
C16_DiffWithoutListing ==
  /\ CannotListTables
  /\ Diffed
  /\ diff.hasChanges
  /\ \E k \in DOMAIN diff.tables :
       diff.tables[k].action = "create" /\ arrayIncludes(dbTableNames(db), diff.tables[k].table)

\* describeTable throws for a table that a model declares and the database holds
DescribeFailure ==
  /\ env.describe # "ok"
  /\ arrayIncludes(desiredTables, env.failing)
  /\ arrayIncludes(dbTableNames(db), env.failing)

\* the entries of a diff for the tables other than tableName, in order
entriesBeside(schemaDiff, tableName) == SelectSeq(schemaDiff.tables, LAMBDA entry : entry.table # tableName)

\* C17 (fail-soft describe): when describing one existing desired table fails, the run still returns a diff,
\* the diff holds no entry for that table, and its entries for every other table are those of the run in
\* which no call fails.
C17_FailSoftDescribe ==
  (Diffed /\ DescribeFailure) =>
    /\ diff # None
    /\ actionsFor(env.failing) = {}
    /\ entriesBeside(diff, env.failing) = entriesBeside(generateDiff(dialect, models, db, Healthy), env.failing)

\* a diff made while describeTable throws for a table of the project that the database holds beside others
C17_DescribeFailed ==
  Diffed /\ DescribeFailure /\ Len(db) > 1 /\ Len(models) > 1

(***************************************************************************)
(* Properties of the column comparison and of the handler binding          *)
(***************************************************************************)
\* a non-key column reported as tinyint(1) with default '1' under a BOOLEAN attribute with default true,
\* the other facets equal
BooleanPair ==
  /\ existingColumn.type = JSStr(<<"T","I","N","Y","I","N","T","(","1",")">>)
  /\ existingColumn.defaultValue = JSStr(<<"1">>)
  /\ String(modelColumn.type) \in {<<"B","O","O","L","E","A","N">>, <<"T","I","N","Y","I","N","T","(","1",")">>}
  /\ modelColumn.defaultValue = JSBool(TRUE)
  /\ ~Truthy(existingColumn.primaryKey)
  /\ sameConstraints(modelColumn, existingColumn)

\* C15 (scenario E): under the MySQL handler an actual boolean column reported as tinyint(1) with default '1'
\* and a desired BOOLEAN column with default true compare as equal: compareBooleans returns true for the two
\* defaults and hasColumnChanged returns false.
C15_MySQLBoolean ==
  (pc = "compared" /\ dialectHandler = "MySQLHandler" /\ BooleanPair) =>
    /\ compareBooleans(dialectHandler, existingColumn.defaultValue, modelColumn.defaultValue)
    /\ ~comparison.changed
    /\ comparison.logged = <<>>

\* the MySQL comparison of a tinyint(1) column with default '1' and a BOOLEAN attribute with default true
C15_BooleanCompared ==
  /\ pc = "compared"
  /\ dialect = "mysql"
  /\ BooleanPair
  /\ String(modelColumn.type) = <<"B","O","O","L","E","A","N">>
  /\ ~comparison.changed

\* the handler the dialect identifier selects
handlerFor(identifier) ==
  IF identifier = "postgres" THEN "PostgreSQLHandler"
  ELSE IF identifier \in {"mysql", "mariadb"} THEN "MySQLHandler"
  ELSE IF identifier = "sqlite" THEN "SQLiteHandler"
  ELSE "GenericHandler"

\* C18 (unsupported dialect): the differ binds exactly one handler, the one its dialect selects (postgres the
\* PostgreSQL handler, mysql and mariadb the MySQL handler, sqlite the SQLite handler, anything else the
\* Generic handler), and the diff run of every dialect, recognized or not, returns a SchemaDiff.
C18_HandlerBinding ==
  /\ dialectHandler # Unbound => dialectHandler = handlerFor(dialect)
  /\ Diffed => (dialectHandler # Unbound /\ diff # None /\ diff.hasChanges \in BOOLEAN)

\* a diff returned under a dialect the switch does not name, with the Generic handler bound
C18_GenericDiff ==
  /\ Diffed
  /\ dialect \notin {"postgres", "mysql", "mariadb", "sqlite"}
  /\ dialectHandler = "GenericHandler"
  /\ diff # None
  /\ db # <<>> /\ models # <<>>

\* the six facets of the compared columns, each on its own: type by the equivalence predicate, nullability,
\* primary key, auto-increment (read by the handler on the existing side), unique, default value (skipped for
\* key columns)
typeDiffers ==
  ~areTypesEquivalent(normalizeType(createDialectHandler(dialect), getTypeString(existingColumn.type)),
                      normalizeType(createDialectHandler(dialect), getTypeString(modelColumn.type)))

nullabilityDiffers == getNullability(existingColumn) # getNullability(modelColumn)

primaryKeyDiffers == Truthy(existingColumn.primaryKey) # Truthy(modelColumn.primaryKey)

autoIncrementDiffers ==
  isAutoIncrement(createDialectHandler(dialect), existingColumn) # Truthy(modelColumn.autoIncrement)

uniqueDiffers == Truthy(existingColumn.unique) # Truthy(modelColumn.unique)

keyColumn ==
  \/ isAutoIncrement(createDialectHandler(dialect), existingColumn)
  \/ Truthy(modelColumn.autoIncrement)
  \/ Truthy(existingColumn.primaryKey)

defaultDiffers ==
  /\ ~keyColumn
  /\ ~StrictEquals(normalizeDefaultValue(createDialectHandler(dialect), existingColumn.defaultValue),
                   normalizeDefaultValue(createDialectHandler(dialect), modelColumn.defaultValue))

\* C20 (hasColumnChanged): hasColumnChanged returns true iff at least one of the six facets differs; it stops
\* at the first facet that differs in the order type, nullability, primary key, auto-increment, unique,
\* default (it logs that facet's message and no other), and it returns false, logging nothing, when none differs.
C20_FirstDifference ==
  pc = "compared" =>
    /\ comparison.changed =
         (typeDiffers \/ nullabilityDiffers \/ primaryKeyDiffers \/ autoIncrementDiffers \/ uniqueDiffers \/ defaultDiffers)
    /\ comparison.logged =
         IF typeDiffers THEN <<"Type difference">>
         ELSE IF nullabilityDiffers THEN <<"Nullability difference">>
         ELSE IF primaryKeyDiffers THEN <<"Primary key difference">>
         ELSE IF autoIncrementDiffers THEN <<"Auto increment difference">>
         ELSE IF uniqueDiffers THEN <<"Unique constraint difference">>
         ELSE IF defaultDiffers THEN <<"Default value difference">>
         ELSE <<>>

\* a comparison that stops at the nullability although the unique flag and the default differ as well
C20_StoppedEarly ==
  /\ pc = "compared"
  /\ comparison.changed
  /\ comparison.logged = <<"Nullability difference">>
  /\ uniqueDiffers
  /\ defaultDiffers

(***************************************************************************)
(* Properties of the column definitions a migration holds                  *)
(***************************************************************************)
\* the calls of a migration, forward and backward
callsOf(plan) == Range(joinLines(plan.up)) \cup Range(joinLines(plan.down))

\* the column definitions the call hands to queryInterface
definitionsOf(call) ==
  CASE call.op = "createTable" -> {call.definition[i].value : i \in DOMAIN call.definition}
    [] call.op \in {"addColumn", "changeColumn"} -> {call.definition}
    [] OTHER -> {}

\* a model declares an attribute without a type
TypelessAttribute ==
  \E i \in DOMAIN models : \E a \in DOMAIN models[i].rawAttributes : ~Truthy(models[i].rawAttributes[a].value.type)

\* C19 (type-less descriptor): a column descriptor without a type makes the plan generation fail for its
\* table, so no migration holds a createTable, addColumn or changeColumn whose column definition lacks a type.
C19_TypedDefinitions ==
  Generated =>
    \A call \in callsOf(migration) : \A definition \in definitionsOf(call) : has(definition, "type")

\* a migration generated from a model with a type-less attribute
C19_TypelessGenerated ==
  Generated /\ TypelessAttribute /\ diff.hasChanges

(***************************************************************************)
(* Properties of the facets of the column comparison                       *)
(***************************************************************************)
\* one side of the compared pair is a primary key or auto-increment; the handler reads the existing side
KeySide ==
  \/ Truthy(existingColumn.primaryKey)
  \/ Truthy(modelColumn.primaryKey)
  \/ isAutoIncrement(createDialectHandler(dialect), existingColumn)
  \/ Truthy(modelColumn.autoIncrement)

\* the normalized defaults of the compared pair are not the same value
defaultsUnequal ==
  ~StrictEquals(normalizeDefaultValue(createDialectHandler(dialect), existingColumn.defaultValue),
                normalizeDefaultValue(createDialectHandler(dialect), modelColumn.defaultValue))

\* C21 (defaults of key columns): when either side is a primary-key column or an auto-increment column
\* (auto-increment on the existing side as the handler detects it), hasColumnChanged does not report the column
\* on account of its default: it does not log a default value difference, and when it returns true one of the
\* other five facets differs.
C21_KeyDefaultSkipped ==
  (pc = "compared" /\ KeySide) =>
    /\ comparison.logged # <<"Default value difference">>
    /\ comparison.changed =>
         (typeDiffers \/ nullabilityDiffers \/ primaryKeyDiffers \/ autoIncrementDiffers \/ uniqueDiffers)

\* a primary-key pair whose defaults are unequal and that is reported unchanged
C21_UnequalKeyDefaults ==
  /\ pc = "compared"
  /\ Truthy(existingColumn.primaryKey) /\ Truthy(modelColumn.primaryKey)
  /\ defaultsUnequal
  /\ ~comparison.changed

\* C22 (nullability of key columns): nullability is forced to false whenever either side is primary key or
\* auto-increment (the existing side as the handler detects it), whatever the allowNull flags say, so such a
\* pair is never reported as changed on the nullability alone: when hasColumnChanged returns true for it, one
\* of the other five facets differs.
C22_KeyNullabilityForced ==
  (pc = "compared" /\ KeySide) =>
    (comparison.changed =>
       (typeDiffers \/ primaryKeyDiffers \/ autoIncrementDiffers \/ uniqueDiffers \/ defaultDiffers))

\* a comparison of a pair with a key side that reached the nullability check
C22_KeyNullabilityCompared ==
  /\ pc = "compared"
  /\ KeySide
  /\ ~typeDiffers
  /\ existingColumn.allowNull = JSBool(TRUE)
  /\ modelColumn.allowNull = JSBool(FALSE)

\* the canonical marker of the current time
CurrentTimestamp == JSStr(<<"C","U","R","R","E","N","T","_","T","I","M","E","S","T","A","M","P">>)

\* a non-key pair whose existing default the handler reads as the current time and whose declared default is
\* DataTypes.NOW or a Date
TimestampDefaults ==
  /\ ~KeySide
  /\ modelColumn.defaultValue \in {JSNow, JSDate}
  /\ normalizeDefaultValue(createDialectHandler(dialect), existingColumn.defaultValue) = CurrentTimestamp

\* C23 (timestamp defaults): when the desired default is DataTypes.NOW or a Date and the actual default is a
\* spelling of now() or CURRENT_TIMESTAMP that the handler recognizes, both normalize to the marker
\* CURRENT_TIMESTAMP and no default value difference is reported.
C23_TimestampDefaults ==
  (pc = "compared" /\ TimestampDefaults) =>
    /\ normalizeDefaultValue(createDialectHandler(dialect), modelColumn.defaultValue) = CurrentTimestamp
    /\ ~defaultDiffers
    /\ comparison.logged # <<"Default value difference">>

\* a PostgreSQL comparison of a column with default now() and an attribute with default DataTypes.NOW that
\* reached the default value check
C23_NowCompared ==
  /\ pc = "compared"
  /\ dialect = "postgres"
  /\ TimestampDefaults
  /\ existingColumn.defaultValue = JSStr(<<"n","o","w","(",")">>)
  /\ modelColumn.defaultValue = JSNow
  /\ ~(typeDiffers \/ nullabilityDiffers \/ primaryKeyDiffers \/ autoIncrementDiffers \/ uniqueDiffers)

\* the boolean an encoding of the handler's dialect stands for: "1" and "0" under the MySQL and the SQLite
\* handler, "t" and "f" under the PostgreSQL handler
decodes(handler, text, value) ==
  \/ handler \in {"MySQLHandler", "SQLiteHandler"} /\ <<text, value>> \in {<<<<"1">>, TRUE>>, <<<<"0">>, FALSE>>}
  \/ handler = "PostgreSQLHandler" /\ <<text, value>> \in {<<<<"t">>, TRUE>>, <<<<"f">>, FALSE>>}

\* a non-key pair whose existing default is the encoding of the declared boolean default
EncodedBoolean ==
  /\ ~KeySide
  /\ modelColumn.defaultValue.t = "boolean"
  /\ IsString(existingColumn.defaultValue)
  /\ decodes(createDialectHandler(dialect), existingColumn.defaultValue.s, modelColumn.defaultValue.b)

\* C24 (boolean defaults): normalizeDefaultValue folds the boolean encoding of the dialect ("1"/"0" under the
\* MySQL and the SQLite handler, "t"/"f" under the PostgreSQL handler) to true/false, so an existing default
\* in that encoding equals the declared boolean default after normalization.
C24_BooleanDefaults ==
  (pc = "compared" /\ EncodedBoolean) =>
    /\ normalizeDefaultValue(createDialectHandler(dialect), existingColumn.defaultValue) = modelColumn.defaultValue
    /\ normalizeDefaultValue(createDialectHandler(dialect), modelColumn.defaultValue) = modelColumn.defaultValue
    /\ ~defaultDiffers

\* a SQLite comparison of a tinyint(1) column with default "1" and a boolean attribute with default true
C24_SQLiteBooleanCompared ==
  /\ pc = "compared"
  /\ dialect = "sqlite"
  /\ EncodedBoolean
  /\ existingColumn.type = JSStr(<<"T","I","N","Y","I","N","T","(","1",")">>)
  /\ String(modelColumn.type) = <<"T","I","N","Y","I","N","T","(","1",")">>
  /\ modelColumn.defaultValue = JSBool(TRUE)

(***************************************************************************)
(* Properties of the type tags                                             *)
(***************************************************************************)
\* the compared types are spellings of float and double, or of enum and varchar
FloatAndDouble ==
  /\ existingType \in {JSStr(<<"D","O","U","B","L","E"," ","P","R","E","C","I","S","I","O","N">>), JSStr(<<"F","L","O","A","T">>)}
  /\ modelType \in {JSType(<<"F","L","O","A","T">>), JSType(<<"D","O","U","B","L","E"," ","P","R","E","C","I","S","I","O","N">>)}

EnumAndVarchar ==
  /\ existingType \in {JSStr(<<"C","H","A","R","A","C","T","E","R"," ","V","A","R","Y","I","N","G","(","2","5","5",")">>), JSStr(<<"V","A","R","C","H","A","R","(","2","5","5",")">>), JSStr(<<"E","N","U","M","(","'","a","'",",","'","b","'",")">>)}
  /\ modelType \in {JSType(<<"E","N","U","M">>), JSType(<<"V","A","R","C","H","A","R","(","2","5","5",")">>)}

\* C25 (equivalent tags): under the PostgreSQL handler, float and double are equivalent and enum and varchar are
\* equivalent for the tags the normalizer produces: a desired FLOAT against an actual double precision, and a
\* desired ENUM against an actual character varying, are not a type change.
C25_EquivalentFamilies ==
  (pc = "compared" /\ dialect = "postgres" /\ (FloatAndDouble \/ EnumAndVarchar)) => typesEquivalent.equivalent

\* the PostgreSQL comparison of a character varying column with an ENUM attribute
C25_EnumOverVarying ==
  /\ pc = "compared"
  /\ dialect = "postgres"
  /\ existingType = JSStr(<<"C","H","A","R","A","C","T","E","R"," ","V","A","R","Y","I","N","G","(","2","5","5",")">>)
  /\ modelType = JSType(<<"E","N","U","M">>)

\* the array types a model may declare, each with the scalar spelling of its base type
ArrayTypes ==
  {<<JSType(<<"A","R","R","A","Y","<","T","E","X","T",">">>), <<"T","E","X","T">>>>, <<JSType(<<"T","E","X","T","[","]">>), <<"T","E","X","T">>>>, <<JSType(<<"I","N","T","E","G","E","R","[","]">>), <<"I","N","T","E","G","E","R">>>>,
   <<JSType(<<"A","R","R","A","Y","<","S","T","R","I","N","G",">">>), <<"V","A","R","C","H","A","R","(","2","5","5",")">>>>}

\* C26 (array tags): the tag of an array type ends in [] whatever its base type, so a desired array column
\* against an actual scalar column of the same base type is a type change.
C26_ArrayTag ==
  pc = "compared" =>
    \A array \in ArrayTypes :
      modelType = array[1] =>
        /\ endsWith(typesEquivalent.model, <<"[","]">>)
        /\ existingType = JSStr(array[2]) => ~typesEquivalent.equivalent

\* the comparison of a scalar column with an array attribute of the same base type
C26_ArrayOverScalar ==
  /\ pc = "compared"
  /\ \E array \in ArrayTypes : modelType = array[1] /\ existingType = JSStr(array[2])

\* C30 (MySQL tags): under the MySQL handler every spelling listed in the type table normalizes to the tag
\* listed for it, so spellings with different listed tags get different tags, and a desired BIGINT against an
\* actual INT is a type change.
C30_ListedTags ==
  (pc = "compared" /\ dialectHandler = "MySQLHandler") =>
    /\ \A i \in DOMAIN MySQLTypeMap : MySQLHandler_normalizeType(MySQLTypeMap[i][1]) = MySQLTypeMap[i][2]
    /\ (existingType = JSStr(<<"I","N","T">>) /\ modelType = JSType(<<"B","I","G","I","N","T">>)) => ~typesEquivalent.equivalent

\* the MySQL comparison of an INT column with a BIGINT attribute
C30_BigintOverInt ==
  /\ pc = "compared"
  /\ dialect = "mysql"
  /\ existingType = JSStr(<<"I","N","T">>)
  /\ modelType = JSType(<<"B","I","G","I","N","T">>)

(***************************************************************************)
(* Properties of the system-table filter                                   *)
(***************************************************************************)
\* the bound handler's filter keeps the table
kept(tableName) == filterSystemTables(dialectHandler, <<tableName>>) # <<>>

\* the name holds sequelizemeta, in any case
TrackingTable(tableName) == includes(toLowerCase(tableName), <<"s","e","q","u","e","l","i","z","e","m","e","t","a">>)

\* C27 (system tables): the bound handler's filter is applied to the list of actual tables before anything is
\* compared: a table it excludes has no drop and no alter entry in the diff, and under every handler it
\* excludes every table whose name holds sequelizemeta, whatever the case of the letters.
C27_SystemTablesFiltered ==
  Diffed =>
    \A i \in DOMAIN db :
      /\ ~kept(db[i].table) => actionsFor(db[i].table) \cap {"drop", "alter"} = {}
      /\ TrackingTable(db[i].table) => ~kept(db[i].table)

\* a diff under the generic handler over a database with a tracking table in capitals, a table that a model
\* declares and that the filter excludes
C27_TrackingTableDeclared ==
  /\ Diffed
  /\ dialectHandler = "GenericHandler"
  /\ \E i \in DOMAIN db :
       /\ TrackingTable(db[i].table)
       /\ db[i].table # <<"S","e","q","u","e","l","i","z","e","M","e","t","a">>
       /\ arrayIncludes(desiredTables, db[i].table)
       /\ actionsFor(db[i].table) = {"create"}

(***************************************************************************)
(* Properties of the defaults a migration holds                            *)
(***************************************************************************)
\* the default stands for the current time: a Date, DataTypes.NOW, or a string the bound handler's
\* normalizeDefaultValue maps to the marker CURRENT_TIMESTAMP
denotesNow(value) ==
  \/ value = JSDate
  \/ value = JSNow
  \/ IsString(value) /\ normalizeDefaultValue(dialectHandler, value) = CurrentTimestamp

\* the from and to descriptors of the column differences of the diff
comparedDescriptors ==
  UNION {UNION {{diff.tables[k].columns.items[j].from, diff.tables[k].columns.items[j].to} \ {Undef} :
                  j \in DOMAIN diff.tables[k].columns.items} :
           k \in {k \in DOMAIN diff.tables : diff.tables[k].action = "alter"}}

\* the column definitions of the calls of the migration
emittedDefinitions == UNION {definitionsOf(call) : call \in callsOf(migration)}

\* C28 (timestamp defaults in a migration): formatColumnDefinition writes every default that stands for the
\* current time (a Date, DataTypes.NOW, a string spelling such as 'now()' or 'CURRENT_TIMESTAMP') as
\* DataTypes.NOW, for the to descriptor and for the from descriptor of a column difference.
C28_NowSerialized ==
  Generated =>
    \A descriptor \in comparedDescriptors :
      denotesNow(descriptor.defaultValue) =>
        /\ formatColumnDefinition(descriptor) \in emittedDefinitions
        /\ get(formatColumnDefinition(descriptor), "defaultValue") = <<"D","a","t","a","T","y","p","e","s",".","N","O","W">>

\* a migration that changes a column declared with DataTypes.NOW and held with the default now()
C28_NowChanged ==
  /\ Generated
  /\ \E descriptor \in comparedDescriptors : descriptor.defaultValue = JSNow
  /\ \E descriptor \in comparedDescriptors : descriptor.defaultValue = JSStr(<<"n","o","w","(",")">>) /\ denotesNow(descriptor.defaultValue)

(***************************************************************************)
(* Convergence                                                             *)
(***************************************************************************)
\* C29 (convergence): after the forward operations of a generated migration have been applied, the next diff
\* of the same models against the resulting database has hasChanges = false and the next generate produces no
\* migration, under every dialect.
C29_Convergence ==
  (pc = "regenerated" /\ env = Healthy) => (~diff.hasChanges /\ migration = None)

\* a second generate under SQLite after a migration that ran
C29_SecondGenerate ==
  pc = "regenerated" /\ env = Healthy /\ dialect = "sqlite"
====
